---- MODULE Spec2Model ----
(***************************************************************************)
(* A model of iff2gif's animation transcoding pipeline: the GIF frame      *)
(* queue (GIFFrameQueue), the writer that drives it (GIFWriter), the ANIM   *)
(* loader loop that feeds the writer (LoadANIM), the clip-range merge       *)
(* (sortclips) and the LZW code stream (CodeStream).                        *)
(***************************************************************************)
EXTENDS Integers, Sequences, FiniteSets, TLC

\* ------------------------------------------------------------ constants

\* src/unnamed/part_003:338   enum { MAX_QUEUE_SIZE = 8 };
MAX_QUEUE_SIZE == 8
\* <climits>, used at src/gifwrite.cpp:100 and src/iff2gif.cpp:75. The
\* model checker's integers end at 2^31 - 1, so its largest integer stands for
\* 4294967295: the value is only compared with frame numbers and range ends,
\* all far below it, and nothing is ever added to it.
UINT_MAX == 2147483647
\* src/gifwrite.cpp:31   #define CODE_LIMIT (1 << 12)
CODE_LIMIT == 4096
\* uint16_t GraphicControlExtension::DelayTime
U16 == 65536
\* uint32_t FrameRate = 50;  // Default to PAL!
DefaultFrameRate == 50
\* ANHD bits: the delta is exclusive-ored into the bitmap.
ANIM_XOR == 2

\* ------------------------------------------------------------ bounds

\* Longest stream handed to the bare frame queue (more than MAX_QUEUE_SIZE).
MaxQFrames == 9
\* Longest animation handed to the writer.
MaxFrames == 3
\* Most Flush calls made on the bare frame queue.
MaxQFlushes == 1
\* Most ranges given with -c to the clip merge.
MaxClipLen == 3
\* The frame numbers over which the frames selected by two clip lists are
\* compared.
MaxClipFrame == 26
\* The ranges a -c argument is made of: 1-based, start <= end, one open-ended.
ClipRanges ==
    {<<1, 1>>, <<1, 3>>, <<1, 5>>, <<2, 2>>, <<2, 6>>, <<4, 9>>, <<6, 10>>,
     <<7, 7>>, <<10, 12>>, <<13, 13>>, <<20, 25>>, <<11, UINT_MAX>>}
\* Most rows of a small image (one pixel wide) whose every content is
\* compressed.
MaxLzwLen == 6
\* The palette indices of the small images (mincodesize 2).
SmallPalette == 0 .. 3
\* Width of the one large image (mincodesize 8).
PatternWidth == 256
\* Rows of the large image, enough to fill the dictionary and go on after
\* the reset.
PatternRows == 16
\* Most codes the decompressor takes in one step.
ReadBatch == 256
\* Planar images that can be told apart by PlanarBitmap::operator==.
Images == {"A", "B"}
\* ANHD reltime values of the source frames: none, a short one, and one whose
\* rescaled value does not fit the 16-bit GIF delay field.
Delays == {0, 10, 40000}
\* Source frame rates (BMHD default 60, DPAN speed).
Rates == {10, 60}
\* PlanarBitmap::Interleave: 0 for a frame without DLTA, else 2 - (interleave & 1).
Interleaves == {0, 1, 2}
\* Drop counts given to the bare frame queue: none, and the double-buffered 2.
QDropCounts == {0, 2}
\* What an out-of-bounds read in Flush can turn out as.
UBOutcomes == {"abort", "equal", "differ"}
\* The failing disk: the longest source, the last write and the last fopen
\* that can fail, and the interleaves of the frames.
MaxIOFrames == 10
MaxFailAt == 4
MaxOpenFailAt == 2
IOInterleaves == {0, 2}
\* The differ: the most pixels of an unscaled image, the most pixels of a
\* source that is scaled, and the largest horizontal scale.
MaxPixels == 9
MaxPlanarPixels == 4
MaxScaleX == 2
\* The delta: the most ops of a column, the most rows of the bitmap.
MaxOps == 2
MaxRows == 3
\* The long deltas: the most rows of the bitmap.
MaxLongRows == 3
\* The history: the most frames of the animation.
MaxHistFrames == 8

\* Frames handed to the writer in a run of small pictures.
MaxPaintFrames == 3
\* Frames handed to the writer in a run watching the bytes compressed.
MaxByteFrames == 2
\* The palette alone: the most colors of the short palettes.
MaxPalLen == 40
\* The animation file: the most FORM ILBMs and the most chunks of one.
MaxForms == 3
MaxChunks == 3

\* ------------------------------------------------------------ state

VARIABLES
    \* GIFWriter
    File,               \* FILE *File: 0 is nullptr, else an index into files
    FrameCount,         \* uint32_t FrameCount
    TotalTicks,         \* uint32_t TotalTicks
    GIFTime,            \* uint32_t GIFTime
    FrameRate,          \* uint32_t FrameRate
    ForcedFrameRate,    \* bool ForcedFrameRate
    FirstDelay,         \* int FirstDelay
    Clips,              \* std::vector<std::pair<unsigned, unsigned>> Clips
    SoloMode,           \* bool SoloMode
    \* GIFFrameQueue WriteQueue
    Queue,              \* vector<pair<GIFFrame,PlanarBitmap>>, oldest first
    FirstFrames,        \* vector<PlanarBitmap>
    FinalFramesToDrop,  \* size_t FinalFramesToDrop
    TotalQueued,        \* unsigned TotalQueued
    QFile,              \* FILE *GIFFrameQueue::File
    \* the environment
    files,              \* the output files, each the sequence of items written
    planar,             \* the bitmap LoadILBM returned last (LoadANIM's planar)
    history,            \* LoadANIM's history[2]: <<>> or the two held images
    decoded,            \* number of frames LoadILBM has reconstructed
    pc,                 \* "run", "closed" (writer destroyed), "aborted"
    \* observers
    enqLog,             \* every Enqueue so far: <<[id, src]>>
    delayLog,           \* the frame rates in effect at the AddDelay calls that acted
    assigned,           \* the sum of the delays AddDelay has stored in frames
    flushLog,           \* every Flush of a non-empty queue: what it found
    delta,              \* ApplyDelta's arguments: the bitmap, the ANHD bits
                        \* and the DLTA chunk
    diff,               \* MakeFrame's frame differ: the source bitmap's
                        \* size and transparent color, PrevFrame, the new
                        \* chunky image, the descriptor and the disposal
    io,                 \* the C library's files: which fwrite and fopen calls
                        \* fail, and the fclose calls made so far
    iff,                \* LoadANIM's place in the file and LoadILBM's
                        \* locals in the FORM ILBM it is reading
    \* LZWCompress
    stream,             \* the CodeStream codes, with the vector it writes to
    pixels,             \* the palette indices handed to AddByte so far
    reader,             \* a GIF decompressor reading the finished vector
    \* main
    clipArg,            \* main's clips as parseclip filled it
    mainClips           \* main's clips, after sortclips

wvars == <<File, FrameCount, TotalTicks, GIFTime, FrameRate, ForcedFrameRate,
           FirstDelay, Clips, SoloMode, Queue, FirstFrames, FinalFramesToDrop,
           TotalQueued, QFile, files, planar, history, decoded, pc, enqLog,
           delayLog, assigned, flushLog, diff, io, iff, clipArg, mainClips,
           delta,
           stream, pixels, reader>>

loaderVars == <<planar, history, decoded>>
mainVars == <<clipArg, mainClips, delta, iff>>
lzwVars == <<stream, pixels, reader>>
writerVars == <<File, FrameCount, TotalTicks, GIFTime, FrameRate,
                ForcedFrameRate, FirstDelay, Clips, SoloMode, Queue,
                FirstFrames, FinalFramesToDrop, TotalQueued, QFile, files,
                enqLog, delayLog, assigned, flushLog, diff, io>>

\* The writer, its queue and the disk as one value, for the operators below.
\* ok is the bool the last called function returned.
St == [File |-> File, FrameCount |-> FrameCount, TotalTicks |-> TotalTicks,
       GIFTime |-> GIFTime, FrameRate |-> FrameRate,
       ForcedFrameRate |-> ForcedFrameRate, FirstDelay |-> FirstDelay,
       Clips |-> Clips, SoloMode |-> SoloMode, Queue |-> Queue,
       FirstFrames |-> FirstFrames, FinalFramesToDrop |-> FinalFramesToDrop,
       TotalQueued |-> TotalQueued, QFile |-> QFile, files |-> files,
       pc |-> pc, enqLog |-> enqLog, delayLog |-> delayLog,
       assigned |-> assigned, flushLog |-> flushLog, diff |-> diff,
       io |-> io,
       ok |-> TRUE]

Commit(s) ==
    /\ File' = s.File
    /\ FrameCount' = s.FrameCount
    /\ TotalTicks' = s.TotalTicks
    /\ GIFTime' = s.GIFTime
    /\ FrameRate' = s.FrameRate
    /\ ForcedFrameRate' = s.ForcedFrameRate
    /\ FirstDelay' = s.FirstDelay
    /\ Clips' = s.Clips
    /\ SoloMode' = s.SoloMode
    /\ Queue' = s.Queue
    /\ FirstFrames' = s.FirstFrames
    /\ FinalFramesToDrop' = s.FinalFramesToDrop
    /\ TotalQueued' = s.TotalQueued
    /\ QFile' = s.QFile
    /\ files' = s.files
    /\ pc' = s.pc
    /\ enqLog' = s.enqLog
    /\ delayLog' = s.delayLog
    /\ assigned' = s.assigned
    /\ flushLog' = s.flushLog
    /\ diff' = s.diff
    /\ io' = s.io

\* ------------------------------------------------------------ CodeStream

\* 1 << n
Shl1(n) == 2 ^ n

\* a | b on non-negative integers.
RECURSIVE BitOr(_, _)
BitOr(a, b) ==
    IF a = 0 THEN b
    ELSE IF b = 0 THEN a
    ELSE (IF a % 2 = 1 \/ b % 2 = 1 THEN 1 ELSE 0) + 2 * BitOr(a \div 2, b \div 2)

\* Dump leaving out the length byte.
DumpNoLength(cs) ==
    IF Len(cs.Chunk) > 0
    THEN [cs EXCEPT !.Codes = @ \o cs.Chunk, !.Chunk = <<>>]
    ELSE cs

\* CodeStream::Dump: the chunk goes to the vector behind its length byte.
\* Chunk is the bytes Chunk[1 .. Chunk[0]] of the code; Chunk[0] is its
\* length.
Dump(cs) ==
    IF Len(cs.Chunk) > 0
    THEN [cs EXCEPT !.Codes = @ \o <<Len(cs.Chunk)>> \o cs.Chunk, !.Chunk = <<>>]
    ELSE cs

\* CodeStream::DumpAccum(full)
RECURSIVE DumpAccum(_, _)
DumpAccum(cs, full) ==
    IF cs.BitPos > (IF full THEN 0 ELSE 7)
    THEN LET c1 == [cs EXCEPT !.Chunk = Append(@, cs.Accum % 256),
                              !.Accum = @ \div 256,
                              !.BitPos = @ - 8]
         IN DumpAccum(IF Len(c1.Chunk) = 255 THEN Dump(c1) ELSE c1, full)
    ELSE cs

\* CodeStream::ResetDict
ResetDict(cs) ==
    [cs EXCEPT !.CodeSize = cs.MinCodeSize + 1,
               !.NextCode = cs.EOICode + 1,
               !.Match = -1,
               !.Dict = [i \in 0 .. Shl1(cs.MinCodeSize) - 1 |-> i],
               !.resets = @ + 1]

\* CodeStream::WriteCode
WriteCode(cs, code) ==
    LET c1 == [cs EXCEPT !.Accum = BitOr(@, code * Shl1(cs.BitPos)),
                         !.BitPos = @ + cs.CodeSize,
                         !.written = @ + 1]
        c2 == DumpAccum(c1, FALSE)
    IN IF code = cs.ClearCode THEN ResetDict(c2) ELSE c2

\* CodeStream::CodeStream(mincodesize, codes). NextCode and Match are not
\* initialized by the constructor itself: WriteCode(ClearCode) resets the
\* dictionary before anything reads them.
CodeStreamCtor(mincodesize, codes) ==
    LET c0 == [Codes |-> codes, Accum |-> 0,
               ClearCode |-> Shl1(mincodesize),
               EOICode |-> Shl1(mincodesize) + 1,
               NextCode |-> 0, Match |-> -1,
               CodeSize |-> mincodesize + 1, MinCodeSize |-> mincodesize,
               BitPos |-> 0, Chunk |-> <<>>, Dict |-> <<>>,
               resets |-> 0, written |-> 0]
    IN WriteCode(c0, c0.ClearCode)

\* AddByte going on past the code limit without a clear code.
AddByteNoClear(cs, p) ==
    IF cs.Match < 0
    THEN [cs EXCEPT !.Match = p]
    ELSE LET str == BitOr(BitOr(cs.Match, p * Shl1(16)), Shl1(24))
         IN IF str \in DOMAIN cs.Dict
            THEN [cs EXCEPT !.Match = cs.Dict[str]]
            ELSE LET c1 == WriteCode(cs, cs.Match)
                     c2 == [c1 EXCEPT !.Dict = (str :> c1.NextCode) @@ @,
                                      !.NextCode = @ + 1]
                     c3 == IF c2.NextCode = Shl1(c2.CodeSize) + 1
                           THEN [c2 EXCEPT !.CodeSize = @ + 1]
                           ELSE c2
                 IN [c3 EXCEPT !.Match = p]

\* AddByte widening the codes one code early.
AddByteWidenEarly(cs, p) ==
    IF cs.Match < 0
    THEN [cs EXCEPT !.Match = p]
    ELSE LET str == BitOr(BitOr(cs.Match, p * Shl1(16)), Shl1(24))
         IN IF str \in DOMAIN cs.Dict
            THEN [cs EXCEPT !.Match = cs.Dict[str]]
            ELSE LET c1 == WriteCode(cs, cs.Match)
                     c2 == [c1 EXCEPT !.Dict = (str :> c1.NextCode) @@ @,
                                      !.NextCode = @ + 1]
                     c3 == IF c2.NextCode = CODE_LIMIT
                           THEN WriteCode(c2, c2.ClearCode)
                           ELSE IF c2.NextCode = Shl1(c2.CodeSize)
                           THEN [c2 EXCEPT !.CodeSize = @ + 1]
                           ELSE c2
                 IN [c3 EXCEPT !.Match = p]

\* CodeStream::AddByte
AddByte(cs, p) ==
    IF cs.Match < 0
    THEN [cs EXCEPT !.Match = p]
    ELSE LET str == BitOr(BitOr(cs.Match, p * Shl1(16)), Shl1(24))
         IN IF str \in DOMAIN cs.Dict
            THEN [cs EXCEPT !.Match = cs.Dict[str]]
            ELSE LET c1 == WriteCode(cs, cs.Match)
                     c2 == [c1 EXCEPT !.Dict = (str :> c1.NextCode) @@ @,
                                      !.NextCode = @ + 1]
                     c3 == IF c2.NextCode = CODE_LIMIT
                           THEN WriteCode(c2, c2.ClearCode)
                           ELSE IF c2.NextCode = Shl1(c2.CodeSize) + 1
                           THEN [c2 EXCEPT !.CodeSize = @ + 1]
                           ELSE c2
                 IN [c3 EXCEPT !.Match = p]

\* CodeStream::~CodeStream
DestroyStream(cs) ==
    LET c1 == IF cs.Match >= 0 THEN WriteCode(cs, cs.Match) ELSE cs
        c2 == WriteCode(c1, c1.EOICode)
        c3 == Dump(DumpAccum(c2, TRUE))
    IN [c3 EXCEPT !.Codes = Append(@, 0)]

\* No frame is being compressed.
NoStream ==
    [Codes |-> <<>>, Accum |-> 0, ClearCode |-> 0, EOICode |-> 0,
     NextCode |-> 0, Match |-> -1, CodeSize |-> 0, MinCodeSize |-> 0,
     BitPos |-> 0, Chunk |-> <<>>, Dict |-> <<>>, resets |-> 0, written |-> 0]
NoPixels == [mode |-> "none", rows |-> 0, bytes |-> <<>>, requested |-> 0]
NoReader == [state |-> "none"]
InitNoStream == stream = NoStream /\ pixels = NoPixels /\ reader = NoReader

\* ------------------------------------------------------------ Delta5

\* a ^ b on non-negative integers.
RECURSIVE BitXor(_, _)
BitXor(a, b) ==
    IF a = 0 THEN b
    ELSE IF b = 0 THEN a
    ELSE (IF a % 2 # b % 2 THEN 1 ELSE 0) + 2 * BitXor(a \div 2, b \div 2)

\* a & b on non-negative integers.
RECURSIVE BitAnd(_, _)
BitAnd(a, b) ==
    IF a = 0 \/ b = 0 THEN 0
    ELSE (IF a % 2 = 1 /\ b % 2 = 1 THEN 1 ELSE 0)
         + 2 * BitAnd(a \div 2, b \div 2)

\* BigLong of the four bytes of the chunk from offset at on.
BigLong(chunk, at) ==
    ((chunk[at + 1] * 256 + chunk[at + 2]) * 256 + chunk[at + 3]) * 256
    + chunk[at + 4]

\* PlanarBitmap::PlanarBitmap: Pitch = ((w + 15) / 16) * 2.
PlanarPitch(w) == ((w + 15) \div 16) * 2

\* No delta at hand.
NoDelta == [bitmap |-> [Width |-> 0, Height |-> 0, Pitch |-> 0,
                        NumPlanes |-> 0, Planes |-> <<>>],
            bits |-> 0, chunk |-> <<>>, ops |-> <<>>, old |-> <<>>]

\* PutRow storing the value alone.
PutRowSet(c, k, value) ==
    IF c.pixel < c.stop
    THEN [c EXCEPT !.plane[c.pixel + 1] = value, !.pixel = @ + k.pitch]
    ELSE c

\* if (pixel < stop) { *pixel = (*pixel & xormask) ^ value; pixel += pitch; }
\* c is the plane with the cursors pixel and ops (offsets), k the constants
\* of the call.
PutRow(c, k, value) ==
    IF c.pixel < c.stop
    THEN [c EXCEPT !.plane[c.pixel + 1] = BitXor(BitAnd(@, k.xormask), value),
                   !.pixel = @ + k.pitch]
    ELSE c

\* Uniq op: while (cnt-- > 0) { PutRow(*ops); ops++; }
RECURSIVE UniqLoop(_, _, _)
UniqLoop(c, k, cnt) ==
    IF cnt = 0 THEN c
    ELSE UniqLoop([PutRow(c, k, k.chunk[c.ops + 1]) EXCEPT !.ops = @ + 1],
                  k, cnt - 1)

\* Same op: while (cnt-- > 0) PutRow(fill);
RECURSIVE SameLoop(_, _, _, _)
SameLoop(c, k, cnt, fill) ==
    IF cnt = 0 THEN c ELSE SameLoop(PutRow(c, k, fill), k, cnt - 1, fill)

\* One op of a column: op = *ops++, then the uniq, same or skip branch.
DeltaOp(c, k) ==
    LET op == k.chunk[c.ops + 1]
    IN IF op >= 128
       THEN UniqLoop([c EXCEPT !.ops = @ + 1], k, op - 128)
       ELSE IF op = 0
       THEN SameLoop([c EXCEPT !.ops = @ + 3], k, k.chunk[c.ops + 2],
                     k.chunk[c.ops + 3])
       ELSE [c EXCEPT !.ops = @ + 1, !.pixel = @ + op * k.pitch]

\* while (opcount-- > 0) DeltaOp
RECURSIVE OpLoop(_, _, _)
OpLoop(c, k, opcount) ==
    IF opcount = 0 THEN c ELSE OpLoop(DeltaOp(c, k), k, opcount - 1)

\* The loop over the columns x of a plane: pixel = Planes[p] + x, stop =
\* pixel + Height * pitch, opcount = *ops++.
RECURSIVE ColumnLoop(_, _, _)
ColumnLoop(c, k, x) ==
    IF x >= k.numcols THEN c
    ELSE ColumnLoop(OpLoop([c EXCEPT !.pixel = x,
                                     !.stop = x + k.Height * k.pitch,
                                     !.ops = @ + 1],
                           k, k.chunk[c.ops + 1]),
                    k, x + 1)

\* Delta5(bitmap, head, len, delta): the planes of the bitmap after the
\* call; bits is head->bits, chunk the bytes of the DLTA chunk.
Delta5(bitmap, bits, chunk) ==
    LET k == [chunk |-> chunk, numcols |-> (bitmap.Width + 7) \div 8,
              pitch |-> bitmap.Pitch, Height |-> bitmap.Height,
              xormask |-> IF BitAnd(bits, ANIM_XOR) # 0 THEN 255 ELSE 0]
    IN [bitmap EXCEPT !.Planes =
           [p \in 1 .. bitmap.NumPlanes |->
               LET ptr == BigLong(chunk, 4 * (p - 1))
               IN IF ptr = 0 THEN bitmap.Planes[p]
                  ELSE ColumnLoop([plane |-> bitmap.Planes[p], pixel |-> 0,
                                   stop |-> 0, ops |-> ptr], k, 0).plane]]

\* ------------------------------------------------------------ Delta7Long, Delta8Long

\* BigShort or BigLong of the element of size bytes at offset at, its top
\* bit left out.
BigElem(chunk, at, size) ==
    IF size = 2 THEN (chunk[at + 1] % 128) * 256 + chunk[at + 2]
    ELSE BigLong([chunk EXCEPT ![at + 1] = @ % 128], at)

\* The byte of xormask that meets the byte at offset i of an element in
\* memory, on a little-endian host.
MaskByte(xormask, i) ==
    IF i = 0 THEN xormask % 256
    ELSE IF i = 1 THEN (xormask \div 256) % 256
    ELSE 0

\* if (pixel < stop) { *pixel = (*pixel & xormask) ^ value; pixel += pitch; }
\* on elements of k.size bytes; the value is the element at c.data of the
\* chunk, taken as it lies in memory. All offsets are in bytes from
\* Planes[p]; wrote keeps the offsets stored to, those past the plane (in
\* PlaneData the next plane, Planes[p] + Pitch * Height) among them.
PutElem(c, k) ==
    IF c.pixel < c.stop
    THEN [c EXCEPT !.plane =
                      [i \in DOMAIN @ |->
                          IF i - 1 \in c.pixel .. c.pixel + k.size - 1
                          THEN BitXor(BitAnd(@[i],
                                             MaskByte(k.xormask,
                                                      i - 1 - c.pixel)),
                                      k.chunk[c.data + i - c.pixel])
                          ELSE @[i]],
                   !.wrote = @ \cup (c.pixel .. c.pixel + k.size - 1),
                   !.pixel = @ + k.pitch]
    ELSE c

\* while (cnt-- > 0) { PutElem; data += step; }: step is the element size
\* in a uniq op and 0 in a same op.
RECURSIVE RunLoop(_, _, _, _)
RunLoop(c, k, cnt, step) ==
    IF cnt = 0 THEN c
    ELSE RunLoop([PutElem(c, k) EXCEPT !.data = @ + step], k, cnt - 1, step)

\* One op of Do8short, or of Delta8Long's own loop: ops and data are one
\* list of elements of k.size bytes.
Op8(c, k) ==
    LET op == BigElem(k.chunk, c.ops, k.size)
        at == c.ops + k.size
    IN IF k.chunk[c.ops + 1] >= 128
       THEN LET c1 == RunLoop([c EXCEPT !.data = at], k, op, k.size)
            IN [c1 EXCEPT !.ops = c1.data]
       ELSE IF op = 0
       THEN [RunLoop([c EXCEPT !.data = at + k.size], k,
                     BigElem(k.chunk, at, k.size), 0)
                EXCEPT !.ops = at + 2 * k.size]
       ELSE [c EXCEPT !.ops = at, !.pixel = @ + op * k.pitch]

\* One op of Delta7Long: the ops are bytes, the data a list of longs.
Op7(c, k) ==
    LET op == k.chunk[c.ops + 1]
    IN IF op >= 128
       THEN RunLoop([c EXCEPT !.ops = @ + 1], k, op - 128, k.size)
       ELSE IF op = 0
       THEN [RunLoop([c EXCEPT !.ops = @ + 2], k, k.chunk[c.ops + 2], 0)
                EXCEPT !.data = @ + k.size]
       ELSE [c EXCEPT !.ops = @ + 1, !.pixel = @ + op * k.pitch]

\* while (opcount-- > 0) of either function.
RECURSIVE LongOpLoop(_, _, _)
LongOpLoop(c, k, opcount) ==
    IF opcount = 0 THEN c
    ELSE LongOpLoop(IF k.operation = 7 THEN Op7(c, k) ELSE Op8(c, k),
                    k, opcount - 1)

\* Delta7Long's columns: numcols = (Width + 15) / 32 columns of longs.
Delta7Columns(Width) == [x \in 1 .. (Width + 15) \div 32 |-> 4]

\* Delta8Long's columns: numcols = (Width + 31) / 32, the last one given to
\* Do8short when lastisshort = (Width & 16) != 0.
Delta8Columns(Width) ==
    LET numcols == (Width + 31) \div 32
    IN [x \in 1 .. numcols |->
           IF x = numcols /\ (Width \div 16) % 2 # 0 THEN 2 ELSE 4]

\* The body of the loop over the columns, for column x (from 0) of the
\* element size cols[x + 1]: pixel = (uint32_t *)Planes[p] + x, stop = pixel
\* + Height * pitch bytes, then the op count and the ops.
LongColumn(c, k, x) ==
    LET k1 == [k EXCEPT !.size = k.cols[x + 1]]
        n == IF k.operation = 7 THEN 1 ELSE k1.size
    IN LongOpLoop([c EXCEPT !.pixel = 4 * x,
                            !.stop = 4 * x + k.Height * k.pitch,
                            !.ops = @ + n],
                  k1,
                  IF k.operation = 7 THEN k.chunk[c.ops + 1]
                  ELSE BigElem(k.chunk, c.ops, k1.size))

RECURSIVE LongColumnLoop(_, _, _)
LongColumnLoop(c, k, x) ==
    IF x >= Len(k.cols) THEN c
    ELSE LongColumnLoop(LongColumn(c, k, x), k, x + 1)

\* Delta7Long (operation 7) and Delta8Long (operation 8) on the bitmap:
\* for each plane its bytes after the call and the offsets stored to.
\* Delta7Long takes the ops from lists[p] and the data from lists[p + 8]
\* and masks with 0xFFFF; Delta8Long takes both from planes[p] and masks
\* with 0xFF.
DeltaLongPlanes(bitmap, operation, bits, chunk) ==
    LET k == [chunk |-> chunk, operation |-> operation,
              cols |-> IF operation = 7 THEN Delta7Columns(bitmap.Width)
                       ELSE Delta8Columns(bitmap.Width),
              pitch |-> bitmap.Pitch, Height |-> bitmap.Height, size |-> 4,
              xormask |-> IF BitAnd(bits, ANIM_XOR) = 0 THEN 0
                          ELSE IF operation = 7 THEN 65535 ELSE 255]
    IN [p \in 1 .. bitmap.NumPlanes |->
           LET ptr == BigLong(chunk, 4 * (p - 1))
               c == [plane |-> bitmap.Planes[p], pixel |-> 0,
                     stop |-> 0, ops |-> ptr, wrote |-> {},
                     data |-> IF operation = 7
                              THEN BigLong(chunk, 4 * (p + 7))
                              ELSE 0]
           IN IF ptr = 0 THEN c ELSE LongColumnLoop(c, k, 0)]

\* The bitmap after Delta7Long or Delta8Long.
DeltaLong(bitmap, operation, bits, chunk) ==
    LET planes == DeltaLongPlanes(bitmap, operation, bits, chunk)
    IN [bitmap EXCEPT !.Planes =
           [p \in 1 .. bitmap.NumPlanes |-> planes[p].plane]]

\* ------------------------------------------------------------ LoadILBM

\* The chunks of a FORM ILBM that LoadILBM acts on, as [id, a, b]: a BMHD
\* with its nPlanes and compression, an ANHD with its operation and
\* interleave, a BODY and a DLTA.
Chunks ==
    [id : {"BMHD"}, a : {0, 8, 9, 24, 32}, b : {0, 2}]
        \cup [id : {"ANHD"}, a : {5, 9}, b : {0, 1, 3}]
        \cup [id : {"BODY", "DLTA"}, a : {0}, b : {0}]

\* LoadANIM before its first FORM ILBM. form counts the FORM ILBMs begun and
\* open says that LoadILBM is in its chunk loop; read, planes, anhdread,
\* nPlanes, compression, operation, interleave and Interleave are LoadILBM's
\* locals (planes is "null", "new" for the bitmap a BMHD made, or
\* "history"), from is the chunk that gave planes its bitmap, applied counts
\* the BODY and DLTA chunks decoded since the last BMHD; error and failedAt
\* are the diagnostic printed in this FORM and the chunk that caused it,
\* fatal is the first FORM with a fatal diagnostic and frames the FORMs
\* whose bitmap reached the writer.
NoIff == [form |-> 0, open |-> FALSE, read |-> 0, planes |-> "null",
          from |-> 0, anhdread |-> FALSE, nPlanes |-> -1, compression |-> 0,
          operation |-> 0, interleave |-> 0, Interleave |-> 0, applied |-> 0,
          error |-> "none", failedAt |-> 0, fatal |-> 0, frames |-> {}]

\* The diagnostics that the format's description calls fatal for the file.
FatalErrors == {"operation", "noheader", "compression"}

\* fprintf(stderr, ...) in LoadILBM or ApplyDelta.
Diagnostic(L, kind) ==
    [L EXCEPT !.error = kind, !.failedAt = L.read,
              !.fatal = IF @ = 0 /\ kind \in FatalErrors THEN L.form ELSE @]

\* A diagnostic followed by return NULL.
ReturnNull(L, kind) ==
    [Diagnostic(L, kind) EXCEPT !.open = FALSE, !.planes = "null"]

\* The BMHD test letting a header without planes through.
PlanesRejectedNoZero(n) == n > 8 /\ n # 24 /\ n # 32

\* The test on header.nPlanes in case ID_BMHD.
PlanesRejected(n) == n = 0 \/ (n > 8 /\ n # 24 /\ n # 32)

\* case ID_BMHD. The PlanarBitmap constructor asserts nPlanes < 32, so that
\* a build with assertions aborts on 32 planes.
ReadBMHD(L, c, ndebug) ==
    LET L1 == [L EXCEPT !.nPlanes = c.a, !.compression = c.b, !.applied = 0]
    IN IF PlanesRejected(c.a) THEN ReturnNull(L1, "planes")
       ELSE IF c.a >= 32 /\ ~ndebug
            THEN [L1 EXCEPT !.open = FALSE, !.planes = "null",
                            !.error = "assert", !.failedAt = L.read]
       ELSE [L1 EXCEPT !.planes = "new", !.from = L.read, !.Interleave = 0]

\* case ID_ANHD.
ReadANHD(L, c) ==
    LET L1 == [L EXCEPT !.anhdread = TRUE, !.operation = c.a,
                        !.interleave = c.b]
    IN IF c.b > 2 THEN ReturnNull(L1, "interleave") ELSE L1

\* case ID_BODY.
ReadBODY(L) ==
    IF L.planes = "null" THEN ReturnNull(L, "nobmhd")
    ELSE IF L.compression > 1 THEN ReturnNull(L, "compression")
    ELSE [L EXCEPT !.applied = @ + 1]

\* ApplyDelta returning the bitmap after the diagnostic.
ApplyDeltaKeepsBitmap(L) ==
    LET L1 == [L EXCEPT !.Interleave = 2 - (L.interleave % 2)]
    IN IF L.operation \in {5, 7, 8} THEN [L1 EXCEPT !.applied = @ + 1]
       ELSE Diagnostic(L1, "operation")

\* ApplyDelta(planes, &anheader, ...) and the assignment of its result to
\* planes: operations 5, 7 and 8 are decoded, any other prints the
\* diagnostic and returns NULL.
ApplyDelta(L) ==
    LET L1 == [L EXCEPT !.Interleave = 2 - (L.interleave % 2)]
    IN IF L.operation \in {5, 7, 8} THEN [L1 EXCEPT !.applied = @ + 1]
       ELSE [Diagnostic(L1, "operation") EXCEPT !.planes = "null"]

\* case ID_DLTA, with LoadANIM's history h.
ReadDLTA(L, h) ==
    IF ~L.anhdread THEN ReturnNull(L, "noheader")
    ELSE LET L1 == IF h # <<>> THEN [L EXCEPT !.planes = "history",
                                               !.from = L.read]
                   ELSE L
         IN IF L1.planes = "null" THEN ReturnNull(L1, "nohistory")
            ELSE ApplyDelta(L1)

\* One turn of LoadILBM's chunk loop, on chunk c.
ReadChunk(L, c, h, ndebug) ==
    LET L1 == [L EXCEPT !.read = @ + 1]
    IN CASE c.id = "BMHD" -> ReadBMHD(L1, c, ndebug)
         [] c.id = "ANHD" -> ReadANHD(L1, c)
         [] c.id = "BODY" -> ReadBODY(L1)
         [] c.id = "DLTA" -> ReadDLTA(L1, h)

\* LoadILBM called on the next FORM ILBM: its locals as declared.
BeginILBM(L) ==
    [NoIff EXCEPT !.form = L.form + 1, !.open = TRUE, !.fatal = L.fatal,
                  !.frames = L.frames]

\* ------------------------------------------------------------ GIFFrame

\* GIFFrame::GIFFrame: a new frame, here for source frame number id.
NewFrame(id) == [id |-> id, DelayTime |-> 0]

\* What GIFFrame::Write puts into the file.
FrameItem(frame) ==
    [t |-> "frame", id |-> frame.id, delay |-> frame.DelayTime, loop |-> FALSE,
     q |-> 0]
\* The header WriteHeader(loop) writes; q notes how many frames had been
\* queued by then.
HeaderItem(loop, q) ==
    [t |-> "header", id |-> 0, delay |-> 0, loop |-> loop, q |-> q]
\* The trailer byte 0x3B.
TrailerItem == [t |-> "trailer", id |-> 0, delay |-> 0, loop |-> FALSE, q |-> 0]

\* The bytes of one item arriving in the file with handle f.
PutItem(fs, f, item) == [fs EXCEPT ![f].items = Append(@, item)]

\* A disk on which every fopen and every write succeeds.
NoIO == [failAt |-> 0, sticky |-> FALSE, openFailAt |-> 0, writes |-> 0,
         opens |-> 0, closed |-> <<>>, failed |-> {}, nullOps |-> 0,
         late |-> 0]

\* Does the n-th write fail?  The write numbered failAt does, and with
\* sticky (a full disk) every later one too.
WriteFails(d, n) ==
    d.failAt # 0 /\ (n = d.failAt \/ (d.sticky /\ n > d.failAt))

\* The fwrite / fputc calls that put one item (a header, a frame, the
\* trailer) into the file with handle f, taken as one write: it succeeds and
\* the item is in the file, or it fails and returns false.  failed keeps the
\* handles a write failed on, late counts the writes made through a handle
\* that was already closed.
TryWrite(s, f, item) ==
    LET n == s.io.writes + 1
        s1 == [s EXCEPT !.io.writes = n,
                        !.io.late = IF \E i \in 1 .. Len(s.io.closed) :
                                           s.io.closed[i] = f
                                     THEN @ + 1 ELSE @]
    IN IF WriteFails(s.io, n)
       THEN [s1 EXCEPT !.io.failed = @ \cup {f}, !.ok = FALSE]
       ELSE [s1 EXCEPT !.files = PutItem(@, f, item), !.ok = TRUE]

\* fclose(f) of an open handle f.
Fclose(s, f) == [s EXCEPT !.io.closed = Append(@, f)]

\* GIFFrame::Write(file), file being the queue's File: nothing is written,
\* and success is pretended, when no file is open.
FrameWrite(s, frame) ==
    IF s.QFile = 0 THEN [s EXCEPT !.ok = TRUE]
    ELSE TryWrite(s, s.QFile, FrameItem(frame))

\* ------------------------------------------------------------ the frame differ

\* A ChunkyBitmap without pixels (Pixels == nullptr).
NoBitmap == [Width |-> 0, Height |-> 0, Pitch |-> 0, Pixels |-> <<>>]

\* GIFFrame::GIFFrame and MakeFrame's first lines: the descriptor of a new
\* frame covers the whole chunky image.
NewIMD(bitmap) ==
    [Left |-> 0, Top |-> 0, Width |-> bitmap.Width, Height |-> bitmap.Height]

\* The differ with nothing to do.
NoDiff == [Width |-> 0, Height |-> 0, TransparentColor |-> -1,
           PrevFrame |-> NoBitmap, chunky |-> NoBitmap,
           IMD |-> NewIMD(NoBitmap), disposal |-> 0, retained |-> NoBitmap]

\* ChunkyBitmap::IsEmpty
IsEmpty(bitmap) == bitmap.Pixels = <<>>

\* ChunkyBitmap::SetSolidColor, one byte per pixel.
SetSolidColor(bitmap, color) ==
    [bitmap EXCEPT !.Pixels = [i \in 1 .. Len(@) |-> color]]

\* ChunkyBitmap::ChunkyBitmap(planar, scalex, 1): Alloc, ToChunky and Expand;
\* every pixel of the source (the sequence img, w pixels a row) is repeated
\* scalex times in its row.
ChunkyCtor(img, w, h, scalex) ==
    [Width |-> w * scalex, Height |-> h, Pitch |-> w * scalex,
     Pixels |-> [i \in 1 .. w * scalex * h |->
                    img[((i - 1) \div (w * scalex)) * w
                        + (((i - 1) % (w * scalex)) \div scalex) + 1]]]

\* prev[i] != cur[i], i counted from 0.
Changed(prev, cur, i) == prev[i + 1] # cur[i + 1]

\* MinArea's first loop: while (++start < end) if (changed) break;
RECURSIVE ScanStart(_, _, _, _)
ScanStart(prev, cur, start, end) ==
    IF start < end /\ ~Changed(prev, cur, start)
    THEN ScanStart(prev, cur, start + 1, end) ELSE start

\* MinArea's second loop: while (--end > start) if (changed) break;
RECURSIVE ScanEnd(_, _, _, _)
ScanEnd(prev, cur, start, end) ==
    IF end > start /\ ~Changed(prev, cur, end)
    THEN ScanEnd(prev, cur, start, end - 1) ELSE end

\* The inner loop over y of the edge searches: is a pixel of column x
\* changed in the rows top .. bot ?
ColumnChanged(prev, cur, width, top, bot, x) ==
    \E y \in top .. bot : Changed(prev, cur, y * width + x)

\* for (x = 0; x < imd.Width - 1; ++x) ... goto gotleft
RECURSIVE FindLeft(_, _, _, _, _, _)
FindLeft(prev, cur, width, top, bot, x) ==
    IF x < width - 1 /\ ~ColumnChanged(prev, cur, width, top, bot, x)
    THEN FindLeft(prev, cur, width, top, bot, x + 1) ELSE x

\* for (x = imd.Width - 1; x > 0; --x) ... goto gotright
RECURSIVE FindRight(_, _, _, _, _, _)
FindRight(prev, cur, width, top, bot, x) ==
    IF x > 0 /\ ~ColumnChanged(prev, cur, width, top, bot, x)
    THEN FindRight(prev, cur, width, top, bot, x - 1) ELSE x

\* The rest of MinArea: start and end are the first and the last changed
\* pixel.
MinAreaEdges(prev, cur, width, top, bot) ==
    LET left == FindLeft(prev, cur, width, top, bot, 0)
        right == FindRight(prev, cur, width, top, bot, width - 1)
    IN [Left |-> left, Top |-> top, Width |-> right - left + 1,
        Height |-> bot - top + 1]

\* MinArea going on to the edges when nothing changed.
MinAreaNoDummy(prev, cur, imd) ==
    LET size == imd.Width * imd.Height
        start == ScanStart(prev, cur, 0, size)
        end == ScanEnd(prev, cur, start, size - 1)
    IN MinAreaEdges(prev, cur, imd.Width, start \div imd.Width,
                    end \div imd.Width)

\* MinArea taking the left and right edges from the first and the last
\* changed pixel.
MinAreaEnds(prev, cur, imd) ==
    LET size == imd.Width * imd.Height
        start == ScanStart(prev, cur, 0, size)
        end == ScanEnd(prev, cur, start, size - 1)
    IN IF start = size THEN [imd EXCEPT !.Width = 1, !.Height = 1]
       ELSE [Left |-> start % imd.Width, Top |-> start \div imd.Width,
             Width |-> (end % imd.Width) - (start % imd.Width) + 1,
             Height |-> (end \div imd.Width) - (start \div imd.Width) + 1]

\* MinArea<uint8_t>(prev, cur, imd), as GIFWriter::MinimumArea calls it
\* for images of one byte a pixel.
MinArea(prev, cur, imd) ==
    LET size == imd.Width * imd.Height
        start == ScanStart(prev, cur, 0, size)
        end == ScanEnd(prev, cur, start, size - 1)
    IN IF start = size THEN [imd EXCEPT !.Width = 1, !.Height = 1]
       ELSE MinAreaEdges(prev, cur, imd.Width, start \div imd.Width,
                         end \div imd.Width)

\* GIFWriter::MinimumArea on the differ d.
MinimumArea(d) ==
    [d EXCEPT !.IMD = MinArea(d.PrevFrame.Pixels, d.chunky.Pixels, @)]

\* GIFWriter::SelectDisposal(planar, imd, chunky) on the differ d: src and
\* dest start at Left + Top * Pitch and go on by planar->Width a row.
SelectDisposal(d) ==
    LET trans == d.TransparentColor
        imd == d.IMD
        src == imd.Left + imd.Top * d.PrevFrame.Pitch
        dest == imd.Left + imd.Top * d.chunky.Pitch
    IN IF trans < 0 \/ IsEmpty(d.PrevFrame) THEN [d EXCEPT !.disposal = 1]
       ELSE IF \E y \in 0 .. imd.Height - 1, x \in 0 .. imd.Width - 1 :
                  /\ d.PrevFrame.Pixels[src + y * d.Width + x + 1] # trans
                  /\ d.chunky.Pixels[dest + y * d.Width + x + 1] = trans
       THEN [d EXCEPT !.disposal = 2,
                      !.PrevFrame = SetSolidColor(@, trans)]
       ELSE [d EXCEPT !.disposal = 1]

\* ------------------------------------------------------------ GIFFrameQueue

\* Shift dropping the oldest frame without writing it.
ShiftNoWrite(s) ==
    IF s.Queue = <<>> THEN [s EXCEPT !.ok = TRUE]
    ELSE [s EXCEPT !.Queue = Tail(s.Queue), !.ok = TRUE]

\* GIFFrameQueue::Shift: write out the oldest frame and shift the others left.
Shift(s) ==
    IF s.Queue = <<>> THEN [s EXCEPT !.ok = TRUE]
    ELSE [FrameWrite(s, Head(s.Queue).frame) EXCEPT !.Queue = Tail(s.Queue)]

\* Enqueue appending to a full queue without writing its oldest frame out.
EnqueueNoShift(s, frame, src) ==
    [s EXCEPT !.Queue = Append(@, [frame |-> frame, src |-> src]),
              !.FirstFrames = IF Len(@) < MAX_QUEUE_SIZE
                              THEN Append(@, src) ELSE @,
              !.TotalQueued = @ + 1,
              !.enqLog = Append(@, [id |-> frame.id, src |-> src]),
              !.ok = TRUE]

\* GIFFrameQueue::Enqueue; it returns what Shift returned.
Enqueue(s, frame, src) ==
    LET s1 == IF Len(s.Queue) >= MAX_QUEUE_SIZE THEN Shift(s)
              ELSE [s EXCEPT !.ok = TRUE]
    IN [s1 EXCEPT !.Queue = Append(@, [frame |-> frame, src |-> src]),
                  !.FirstFrames = IF Len(@) < MAX_QUEUE_SIZE
                                  THEN Append(@, src) ELSE @,
                  !.TotalQueued = @ + 1,
                  !.enqLog = Append(@, [id |-> frame.id, src |-> src])]

\* The loop of Flush: while (Queue.size() > FinalFramesToDrop) Shift(),
\* left at the first Shift that fails.
RECURSIVE FlushLoop(_)
FlushLoop(s) ==
    IF Len(s.Queue) > s.FinalFramesToDrop
    THEN LET s1 == Shift(s) IN IF s1.ok THEN FlushLoop(s1) ELSE s1
    ELSE [s EXCEPT !.ok = TRUE]

\* FlushDiffers comparing with the front of the queue instead of its tail.
FlushDiffersFront(s, ub) ==
    LET n == s.FinalFramesToDrop
    IN IF n <= Len(s.Queue)
       THEN \E i \in 0 .. n - 1 : s.FirstFrames[i + 1] # s.Queue[i + 1].src
       ELSE ub = "differ"

\* The comparison loop of Flush: does some FirstFrames[i] differ from
\* Queue[Queue.size() - FinalFramesToDrop + i].second ?  When the queue holds
\* fewer than FinalFramesToDrop entries the index is out of bounds (the
\* assert fails, or without asserts the read is undefined): ub is then what
\* the build produces.
FlushDiffers(s, ub) ==
    LET n == s.FinalFramesToDrop
        len == Len(s.Queue)
    IN IF n <= len
       THEN \E i \in 0 .. n - 1 :
                s.FirstFrames[i + 1] # s.Queue[len - n + i + 1].src
       ELSE ub = "differ"

\* What flushLog keeps of a Flush: the frames ever queued, the drop count
\* and the queued frame numbers it found, and the drop count it went on with.
FlushNote(s, after) ==
    [total |-> s.TotalQueued, drop |-> s.FinalFramesToDrop,
     queued |-> [i \in 1 .. Len(s.Queue) |-> s.Queue[i].frame.id],
     after |-> after]

\* GIFFrameQueue::Flush
Flush(s, ub) ==
    IF s.Queue = <<>> THEN [s EXCEPT !.ok = TRUE]
    ELSE IF s.FinalFramesToDrop > Len(s.Queue) /\ ub = "abort"
    THEN [s EXCEPT !.pc = "aborted"]
    ELSE LET s1 == IF s.FinalFramesToDrop # 0 /\ FlushDiffers(s, ub)
                   THEN [s EXCEPT !.FinalFramesToDrop = 0] ELSE s
         IN [FlushLoop(s1) EXCEPT !.Queue = <<>>,
                                  !.flushLog =
                                      Append(@, FlushNote(s, s1.FinalFramesToDrop))]

\* GIFFrameQueue::SetDropFrames
SetDropFrames(s, count) == [s EXCEPT !.FinalFramesToDrop = count]

\* GIFFrameQueue::MostRecent: the index of the newest entry, 0 for nullptr.
MostRecent(s) == Len(s.Queue)

\* GIFFrameQueue::SetFile
SetFile(s, f) == [s EXCEPT !.QFile = f]

\* ------------------------------------------------------------ GIFWriter

\* GIFFrame::SetDelay(centisecs): GCE.DelayTime = centisecs, an int stored
\* in a uint16_t.
SetDelay(frame, centisecs) == [frame EXCEPT !.DelayTime = centisecs % U16]

\* GIFWriter::AddDelay(oldframe, delay), oldframe being Queue[idx].first.
\* tick, lasttime and nowtime are uint32_t and the inner delay is an int:
\* the ticks of the model stay below 2^31 / 100, where the unsigned sum,
\* product and quotient are exact and nowtime - lasttime, converted to int,
\* is the signed difference.
AddDelay(s, idx, delay) ==
    IF delay # 0
    THEN LET tick == s.TotalTicks + delay
             lasttime == s.GIFTime
             nowtime == (tick * 100) \div s.FrameRate
             d == nowtime - lasttime
         IN [s EXCEPT !.Queue[idx].frame = SetDelay(@, d),
                      !.TotalTicks = tick,
                      !.GIFTime = s.GIFTime + d,
                      !.delayLog = @ \cup {s.FrameRate},
                      !.assigned = @ + (d % U16)]
    ELSE s

\* GIFWriter::BadWrite: fclose(File), and the writer and the queue forget
\* the file.  With File already null the call is fclose(nullptr), which the C
\* library leaves undefined: the process dies there (ub = "abort") or goes
\* on; nullOps counts these calls.
BadWrite(s, ub) ==
    LET s1 == IF s.File # 0 THEN Fclose(s, s.File)
              ELSE [s EXCEPT !.io.nullOps = @ + 1,
                             !.pc = IF ub = "abort" THEN "aborted" ELSE @]
    IN [s1 EXCEPT !.File = 0, !.QFile = 0]

\* The end of FinishFile: s is the state after the Flush and the write of
\* the trailer, s.ok is succ.
FinishFileClose(s, ub) ==
    IF s.pc = "aborted" THEN s
    ELSE IF s.ok THEN [Fclose(s, s.File) EXCEPT !.File = 0, !.QFile = 0]
    ELSE [BadWrite(s, ub) EXCEPT !.ok = FALSE]

\* FinishFile after WriteQueue.Flush(): the trailer is written if Flush
\* returned true.
FinishFileTrailer(s, ub) ==
    FinishFileClose(IF s.pc # "aborted" /\ s.ok
                    THEN TryWrite(s, s.File, TrailerItem) ELSE s, ub)

\* FinishFile putting the trailer before the queued frames.
FinishFileTrailerFirst(s, ub) ==
    IF s.File # 0
    THEN FinishFileClose([Flush(TryWrite(s, s.File, TrailerItem), ub)
                             EXCEPT !.ok = TRUE], ub)
    ELSE [s EXCEPT !.ok = TRUE]

\* GIFWriter::FinishFile: succ = WriteQueue.Flush() && fputc(0x3B, File).
FinishFile(s, ub) ==
    IF s.File # 0
    THEN FinishFileTrailer(Flush(IF MostRecent(s) # 0
                                 THEN AddDelay(s, MostRecent(s), s.FirstDelay)
                                 ELSE s, ub), ub)
    ELSE [s EXCEPT !.ok = TRUE]

\* GIFWriter::GenFilename: BaseFilename (0 here) in normal mode, else the
\* name numbered FrameCount + 1.
GenFilename(s) == IF ~s.SoloMode THEN 0 ELSE s.FrameCount + 1

\* The end of WriteHeader: s is the state after the writes of the header.
WriteHeaderEnd(s, ub) == IF s.ok THEN s ELSE BadWrite(s, ub)

\* WriteHeader from its fopen on: s is the state after the solo-mode
\* FinishFile, s.ok what that returned.
WriteHeaderOpen(s, loop, ub) ==
    LET n == s.io.opens + 1
        f == Len(s.files) + 1
    IN IF s.pc = "aborted" THEN s
       ELSE IF ~s.ok THEN BadWrite(s, ub)
       ELSE IF n = s.io.openFailAt
       THEN [s EXCEPT !.io.opens = n, !.File = 0]
       ELSE WriteHeaderEnd(
                TryWrite([s EXCEPT !.io.opens = n,
                                   !.files = Append(@, [name |-> GenFilename(s),
                                                        items |-> <<>>]),
                                   !.File = f,
                                   !.QFile = f],
                         f, HeaderItem(loop, s.TotalQueued)), ub)

\* GIFWriter::WriteHeader(loop).  In solo mode the open file is finished
\* first, and BadWrite is called when that fails; the fopen numbered
\* openFailAt fails and leaves File null; the signature, the screen
\* descriptor, the palette and the looping extension are one write here,
\* followed by BadWrite when it fails.
WriteHeader(s, loopArg, ub) ==
    WriteHeaderOpen(IF s.SoloMode /\ s.File # 0 THEN FinishFile(s, ub)
                    ELSE [s EXCEPT !.ok = TRUE],
                    IF s.SoloMode THEN FALSE ELSE loopArg, ub)

\* The end of MakeFrame: BadWrite if Enqueue returned false.
MakeFrameEnd(s, ub) == IF s.ok THEN s ELSE BadWrite(s, ub)

\* GIFWriter::MakeFrame (nothing more happens once the process has died in
\* WriteHeader): the drop count, the back-filled delay of the
\* preceding frame, and the new frame queued.
MakeFrame(s, bitmap, ub) ==
    LET s1 == SetDropFrames(s, IF s.SoloMode THEN 0 ELSE bitmap.Interleave)
        oldframe == MostRecent(s1)
        s2 == IF oldframe # 0 THEN AddDelay(s1, oldframe, bitmap.Delay) ELSE s1
    IN IF s.pc = "aborted" THEN s
       ELSE MakeFrameEnd(Enqueue(s2, NewFrame(s.FrameCount), bitmap.img), ub)

\* The end of the clip-range part (lines 277-287): a range that ends with
\* this frame is erased, and the drop count cleared with the last range.
ClipGateEnd(s) ==
    IF s.FrameCount = s.Clips[1][2]
    THEN [s EXCEPT !.Clips = Tail(@),
                   !.FinalFramesToDrop = IF Len(s.Clips) = 1 THEN 0 ELSE @]
    ELSE s

\* ClipGateEnd leaving the drop count alone.
ClipGateEndKeepDrop(s) ==
    IF s.FrameCount = s.Clips[1][2] THEN [s EXCEPT !.Clips = Tail(@)] ELSE s

\* ClipGate starting a range one frame late (> for >=).
ClipGateLate(s, bitmap, ub) ==
    IF s.Clips # <<>>
    THEN ClipGateEnd(IF s.FrameCount > s.Clips[1][1]
                     THEN MakeFrame(IF s.SoloMode \/ s.TotalQueued = 1
                                    THEN WriteHeader(s, TRUE, ub) ELSE s,
                                    bitmap, ub)
                     ELSE s)
    ELSE s

\* ClipGate leaving the drop count alone when the last range ends.
ClipGateKeepDrop(s, bitmap, ub) ==
    IF s.Clips # <<>>
    THEN ClipGateEndKeepDrop(IF s.FrameCount >= s.Clips[1][1]
                             THEN MakeFrame(IF s.SoloMode \/ s.TotalQueued = 1
                                            THEN WriteHeader(s, TRUE, ub)
                                            ELSE s, bitmap, ub)
                             ELSE s)
    ELSE s

\* ClipGate writing the header before the first frame is queued.
ClipGateEagerHeader(s, bitmap, ub) ==
    IF s.Clips # <<>>
    THEN ClipGateEnd(IF s.FrameCount >= s.Clips[1][1]
                     THEN MakeFrame(IF s.SoloMode \/ s.TotalQueued = 0
                                    THEN WriteHeader(s, TRUE, ub) ELSE s,
                                    bitmap, ub)
                     ELSE s)
    ELSE s

\* The clip-range part of GIFWriter::AddFrame (lines 264-287).
ClipGate(s, bitmap, ub) ==
    IF s.Clips # <<>>
    THEN ClipGateEnd(IF s.FrameCount >= s.Clips[1][1]
                     THEN MakeFrame(IF s.SoloMode \/ s.TotalQueued = 1
                                    THEN WriteHeader(s, TRUE, ub) ELSE s,
                                    bitmap, ub)
                     ELSE s)
    ELSE s

\* GIFWriter::AddFrame
AddFrame(s, bitmap, ub) ==
    LET s1 == IF s.FrameCount = 0
              THEN [s EXCEPT !.FirstDelay = bitmap.Delay] ELSE s
        s2 == IF bitmap.Rate > 0 /\ ~s1.ForcedFrameRate
              THEN [s1 EXCEPT !.FrameRate = bitmap.Rate] ELSE s1
        s3 == [s2 EXCEPT !.FrameCount = @ + 1]
    IN ClipGate(s3, bitmap, ub)

\* The end of the destruction: s is the state after the queue's Flush.
DestroyEnd(s) == IF s.pc = "aborted" THEN s ELSE [s EXCEPT !.pc = "closed"]

\* GIFFrameQueue::~GIFFrameQueue: Flush().
DestroyQueue(s, ub) ==
    DestroyEnd(IF s.pc = "aborted" THEN s ELSE Flush(s, ub))

\* ~GIFWriter from FinishFile on, and the destruction of WriteQueue.
DestroyFinish(s, ub) ==
    DestroyQueue(IF s.pc = "aborted" THEN s ELSE FinishFile(s, ub), ub)

\* GIFWriter::~GIFWriter, followed by the destruction of its member
\* WriteQueue (GIFFrameQueue::~GIFFrameQueue calls Flush).
DestroyWriter(s, ub) ==
    DestroyFinish(IF s.TotalQueued = 1 THEN WriteHeader(s, FALSE, ub) ELSE s,
                  ub)

\* ------------------------------------------------------------ sortclips

\* std::pair's operator<, which std::sort uses.
PairLess(a, b) == a[1] < b[1] \/ (a[1] = b[1] /\ a[2] < b[2])

\* std::sort(begin(clips), end(clips)): insertion into a sorted list.
RECURSIVE InsertSorted(_, _)
InsertSorted(x, sorted) ==
    IF sorted = <<>> THEN <<x>>
    ELSE IF PairLess(x, Head(sorted)) THEN <<x>> \o sorted
    ELSE <<Head(sorted)>> \o InsertSorted(x, Tail(sorted))

RECURSIVE StdSort(_)
StdSort(clips) ==
    IF clips = <<>> THEN <<>> ELSE InsertSorted(Head(clips), StdSort(Tail(clips)))

\* The end of the later range taken whichever is greater.
MaxLater(a, b) == b

\* std::max
Max(a, b) == IF a >= b THEN a ELSE b

\* The sequence s without its element at (1-based) position k.
EraseAt(s, k) == SubSeq(s, 1, k - 1) \o SubSeq(s, k + 1, Len(s))

\* The start of a range taken as it is, not its predecessor.
NoPred(x) == x

\* x - 1 in unsigned arithmetic: 0 - 1 is UINT_MAX.
UnsignedPred(x) == IF x = 0 THEN UINT_MAX ELSE x - 1

\* The merge loop of sortclips, at loop index i (the code's clips[i - 1] is
\* clips[i] here, its clips[i] is clips[i + 1]). clips[i].first - 1 is
\* unsigned arithmetic.
RECURSIVE MergeLoop(_, _)
MergeLoop(clips, i) ==
    IF i >= Len(clips) THEN clips
    ELSE IF clips[i][2] >= UnsignedPred(clips[i + 1][1])
    THEN MergeLoop(EraseAt([clips EXCEPT ![i][2] = Max(clips[i][2], clips[i + 1][2])],
                           i + 1),
                   i)
    ELSE MergeLoop(clips, i + 1)

\* sortclips
sortclips(clips) == MergeLoop(StdSort(clips), 1)

\* ------------------------------------------------------------ the run

\* GIFWriter::GIFWriter: the clip list defaults to everything.
CtorClips(clips) == IF clips = <<>> THEN << <<1, UINT_MAX>> >> ELSE clips

\* The -c arguments of the runs of the writer, as parseclip delivers them.
ClipArgs ==
    { <<>>,
      << <<2, 3>> >>,
      << <<3, UINT_MAX>> >>,
      << <<3, 3>>, <<1, 1>> >>,
      << <<1, 2>>, <<3, 4>> >> }

\* The -r arguments: none (0), or a forced rate.
RateArgs == {0, 10}

InitQueue ==
    /\ Queue = <<>>
    /\ FirstFrames = <<>>
    /\ FinalFramesToDrop = 0
    /\ TotalQueued = 0
    /\ enqLog = <<>>

\* main up to LoadFile: the options parsed, the clips sorted and the writer
\* constructed.
InitMain ==
    /\ InitQueue
    /\ QFile = 0
    /\ File = 0
    /\ FrameCount = 0
    /\ TotalTicks = 0
    /\ GIFTime = 0
    /\ \E r \in RateArgs :
          /\ ForcedFrameRate = (r > 0)
          /\ FrameRate = IF r > 0 THEN r ELSE DefaultFrameRate
    /\ FirstDelay = 0
    /\ \E c \in ClipArgs :
          /\ clipArg = c
          /\ mainClips = sortclips(c)
          /\ Clips = CtorClips(mainClips)
    /\ SoloMode \in BOOLEAN
    /\ files = <<>>
    /\ planar = [img |-> "A", Delay |-> 0, Rate |-> 0, Interleave |-> 0]
    /\ history = <<>>
    /\ decoded = 0
    /\ pc = "run"
    /\ delayLog = {}
    /\ assigned = 0
    /\ flushLog = <<>>
    /\ diff = NoDiff
    /\ InitNoStream
    /\ delta = NoDelta
    /\ iff = NoIff

\* The run on a disk that never fails.
Init == InitMain /\ io = NoIO

\* NextHistory swapping the slots after every frame.
NextHistoryAlwaysSwap(h, bitmap) ==
    IF h = <<>> THEN <<bitmap.img, bitmap.img>>
    ELSE LET slot == IF bitmap.Interleave = 1 THEN 2 ELSE 1
             h1 == IF bitmap.Interleave = 0 THEN h
                   ELSE [h EXCEPT ![slot] = bitmap.img]
         IN <<h1[2], h1[1]>>

\* LoadANIM's bookkeeping after a frame: the first frame fills both history
\* slots; a later delta frame was decoded in place into the slot its
\* interleave selects (Interleave 1 is slot 1, Interleave 2 is slot 0), a
\* frame without DLTA is a buffer of its own; the slots swap unless
\* Interleave is 1.
NextHistory(h, bitmap) ==
    IF h = <<>> THEN <<bitmap.img, bitmap.img>>
    ELSE LET slot == IF bitmap.Interleave = 1 THEN 2 ELSE 1
             h1 == IF bitmap.Interleave = 0 THEN h
                   ELSE [h EXCEPT ![slot] = bitmap.img]
         IN IF bitmap.Interleave # 1 THEN <<h1[2], h1[1]>> ELSE h1

\* The outcomes of the next Flush that the action has to choose among: all
\* of UBOutcomes when Flush would read out of bounds, else nothing to choose.
FlushOutcomes ==
    IF Queue # <<>> /\ FinalFramesToDrop > Len(Queue)
    THEN UBOutcomes ELSE {"equal"}

\* One turn of LoadANIM's loop (or LoadFile's single ILBM): LoadILBM
\* reconstructs the next frame and the writer's AddFrame takes it. A frame
\* without DLTA has Interleave 0 and Delay 0 (ApplyDelta sets both).
LoadFrame ==
    /\ pc = "run"
    /\ decoded < MaxFrames
    /\ \E img \in Images, ilv \in Interleaves, d \in Delays, rate \in Rates,
          ub \in FlushOutcomes :
          /\ ilv = 0 => d = 0
          /\ LET bitmap == [img |-> img, Delay |-> d, Rate |-> rate,
                            Interleave |-> ilv]
             IN /\ planar' = bitmap
                /\ history' = NextHistory(history, bitmap)
                /\ decoded' = decoded + 1
                /\ Commit(AddFrame(St, bitmap, ub))
                /\ UNCHANGED <<mainVars, lzwVars>>

\* The end of main: the source is exhausted (or LoadILBM failed) and the
\* writer is destroyed.
EndOfMain ==
    /\ pc = "run"
    /\ \E ub \in FlushOutcomes : Commit(DestroyWriter(St, ub))
    /\ UNCHANGED <<loaderVars, mainVars, lzwVars>>

Next == LoadFrame \/ EndOfMain

vars == wvars

Spec == Init /\ [][Next]_vars

\* ------------------------------------------------------------ the failing disk

\* The run on a disk where one write may fail (and with it every later one),
\* and one fopen.
InitIO ==
    /\ InitMain
    /\ \E w \in 0 .. MaxFailAt, st \in BOOLEAN, o \in 0 .. MaxOpenFailAt :
          io = [NoIO EXCEPT !.failAt = w, !.sticky = st /\ w # 0,
                            !.openFailAt = o]

\* One turn of LoadANIM's loop as in LoadFrame, for a source of up to
\* MaxIOFrames frames of one image at one rate.
LoadFrameIO ==
    /\ pc = "run"
    /\ decoded < MaxIOFrames
    /\ \E ilv \in IOInterleaves, ub \in UBOutcomes :
          LET bitmap == [img |-> "A", Delay |-> 0, Rate |-> DefaultFrameRate,
                         Interleave |-> ilv]
          IN /\ planar' = bitmap
             /\ history' = NextHistory(history, bitmap)
             /\ decoded' = decoded + 1
             /\ Commit(AddFrame(St, bitmap, ub))
             /\ UNCHANGED <<mainVars, lzwVars>>

\* The end of main as in EndOfMain.
EndOfMainIO ==
    /\ pc = "run"
    /\ \E ub \in UBOutcomes : Commit(DestroyWriter(St, ub))
    /\ UNCHANGED <<loaderVars, mainVars, lzwVars>>

NextIO == LoadFrameIO \/ EndOfMainIO

SpecIO == InitIO /\ [][NextIO]_vars

\* ------------------------------------------------------------ the bare queue

\* A GIFFrameQueue of its own, constructed and given an open file with
\* SetFile, as the writer gives it one before the queue can fill up.
InitQ ==
    /\ InitQueue
    /\ QFile = 1
    /\ files = << [name |-> 0, items |-> <<>>] >>
    /\ File = 1
    /\ FrameCount = 0
    /\ TotalTicks = 0
    /\ GIFTime = 0
    /\ ForcedFrameRate = FALSE
    /\ FrameRate = DefaultFrameRate
    /\ FirstDelay = 0
    /\ clipArg = <<>>
    /\ mainClips = <<>>
    /\ Clips = CtorClips(mainClips)
    /\ SoloMode = FALSE
    /\ planar = [img |-> "A", Delay |-> 0, Rate |-> 0, Interleave |-> 0]
    /\ history = <<>>
    /\ decoded = 0
    /\ pc = "run"
    /\ delayLog = {}
    /\ assigned = 0
    /\ flushLog = <<>>
    /\ diff = NoDiff
    /\ io = NoIO
    /\ InitNoStream
    /\ delta = NoDelta
    /\ iff = NoIff

\* Enqueue(frame, source_bitmap) with the next frame and any source image.
QEnqueue ==
    /\ pc = "run"
    /\ TotalQueued < MaxQFrames
    /\ \E img \in Images :
          Commit(Enqueue(St, NewFrame(TotalQueued + 1), img))
    /\ UNCHANGED <<loaderVars, mainVars, lzwVars>>

\* SetDropFrames(count)
QSetDropFrames ==
    /\ pc = "run"
    /\ \E n \in QDropCounts :
          /\ n # FinalFramesToDrop
          /\ Commit(SetDropFrames(St, n))
    /\ UNCHANGED <<loaderVars, mainVars, lzwVars>>

\* Flush()
QFlush ==
    /\ pc = "run"
    /\ Queue # <<>>
    /\ Len(flushLog) < MaxQFlushes
    /\ \E ub \in FlushOutcomes : Commit(Flush(St, ub))
    /\ UNCHANGED <<loaderVars, mainVars, lzwVars>>

NextQ == QEnqueue \/ QSetDropFrames \/ QFlush

SpecQueue == InitQ /\ [][NextQ]_vars

\* ------------------------------------------------------------ the clip merge

\* main before the writer exists: no file, no frame, no writer state yet.
InitIdle ==
    /\ InitQueue
    /\ QFile = 0
    /\ File = 0
    /\ FrameCount = 0
    /\ TotalTicks = 0
    /\ GIFTime = 0
    /\ ForcedFrameRate = FALSE
    /\ FrameRate = DefaultFrameRate
    /\ FirstDelay = 0
    /\ Clips = <<>>
    /\ SoloMode = FALSE
    /\ files = <<>>
    /\ planar = [img |-> "A", Delay |-> 0, Rate |-> 0, Interleave |-> 0]
    /\ history = <<>>
    /\ decoded = 0
    /\ delayLog = {}
    /\ assigned = 0
    /\ flushLog = <<>>
    /\ io = NoIO
    /\ iff = NoIff

\* main at the start of its option loop.
InitClips ==
    /\ InitIdle
    /\ diff = NoDiff
    /\ clipArg = <<>>
    /\ mainClips = <<>>
    /\ pc = "args"
    /\ InitNoStream
    /\ delta = NoDelta

\* parseclip, for one range of a -c argument: clips.push_back(start, end).
ParseClip ==
    /\ pc = "args"
    /\ Len(mainClips) < MaxClipLen
    /\ \E r \in ClipRanges :
          /\ mainClips' = Append(mainClips, r)
          /\ clipArg' = Append(clipArg, r)
    /\ UNCHANGED <<pc, delta, iff, writerVars, loaderVars, lzwVars>>

\* main after the option loop: sortclips(clips).
SortClips ==
    /\ pc = "args"
    /\ mainClips' = sortclips(mainClips)
    /\ pc' = "sorted"
    /\ UNCHANGED <<clipArg, delta, iff, writerVars, loaderVars, lzwVars>>

NextClips == ParseClip \/ SortClips

SpecClips == InitClips /\ [][NextClips]_vars

\* ------------------------------------------------------------ the differ alone

\* The image sizes w x h of at most n pixels.
Shapes(n) == {wh \in (1 .. n) \X (1 .. n) : wh[1] * wh[2] <= n}

\* The images of n pixels over the colors 0 and 1.
ImagesOf(n) == [1 .. n -> {0, 1}]

\* The differ in MakeFrame with a preceding frame queued.  Either the
\* images are unscaled, of up to MaxPixels pixels, without a transparent
\* color, and the retained frame is the new one or all of color 0; or the
\* source has up to MaxPlanarPixels pixels, is scaled by up to MaxScaleX
\* horizontally, color 0 is transparent, and the retained frame is any
\* image, or none.
InitDiff ==
    /\ InitIdle
    /\ clipArg = <<>>
    /\ mainClips = <<>>
    /\ InitNoStream
    /\ pc = "makeframe"
    /\ \/ \E wh \in Shapes(MaxPixels) :
            \E cur \in ImagesOf(wh[1] * wh[2]) :
            \E prev \in {cur, [i \in 1 .. wh[1] * wh[2] |-> 0]} :
               LET bitmap == ChunkyCtor(cur, wh[1], wh[2], 1)
               IN diff = [Width |-> wh[1], Height |-> wh[2],
                          TransparentColor |-> -1,
                          PrevFrame |-> ChunkyCtor(prev, wh[1], wh[2], 1),
                          chunky |-> bitmap, IMD |-> NewIMD(bitmap),
                          disposal |-> 0,
                          retained |-> ChunkyCtor(prev, wh[1], wh[2], 1)]
       \/ \E wh \in Shapes(MaxPlanarPixels), sx \in 1 .. MaxScaleX :
            \E cur \in ImagesOf(wh[1] * wh[2]) :
            \E prev \in ImagesOf(wh[1] * wh[2]) \cup {<<>>} :
               LET bitmap == ChunkyCtor(cur, wh[1], wh[2], sx)
                   old == IF prev = <<>> THEN NoBitmap
                          ELSE ChunkyCtor(prev, wh[1], wh[2], sx)
               IN diff = [Width |-> wh[1], Height |-> wh[2],
                          TransparentColor |-> 0,
                          PrevFrame |-> old,
                          chunky |-> bitmap, IMD |-> NewIMD(bitmap),
                          disposal |-> 0, retained |-> old]
    /\ delta = NoDelta

\* MakeFrame line 363: SelectDisposal(bitmap, newframe.IMD, chunky) for the
\* preceding frame.
DoSelectDisposal ==
    /\ pc = "makeframe"
    /\ Commit([St EXCEPT !.diff = SelectDisposal(@), !.pc = "disposal"])
    /\ UNCHANGED <<loaderVars, mainVars, lzwVars>>

\* MakeFrame lines 379-382: MinimumArea(PrevFrame, chunky, newframe.IMD),
\* PrevFrame not being empty.
DoMinimumArea ==
    /\ pc \in {"makeframe", "disposal"}
    /\ ~IsEmpty(diff.PrevFrame)
    /\ Commit([St EXCEPT !.diff = MinimumArea(@), !.pc = "area"])
    /\ UNCHANGED <<loaderVars, mainVars, lzwVars>>

NextDiff == DoSelectDisposal \/ DoMinimumArea

SpecDiff == InitDiff /\ [][NextDiff]_vars

\* ------------------------------------------------------------ the delta alone

\* The ops of a column: a literal run of the bytes data, a run of n rows
\* filled with one byte, a skip of n rows.
UniqOp(data) == [k |-> "uniq", n |-> Len(data), data |-> data]
SameOp(n, fill) == [k |-> "same", n |-> n, data |-> <<fill>>]
SkipOp(n) == [k |-> "skip", n |-> n, data |-> <<>>]

DeltaOps ==
    {UniqOp(<<255>>), UniqOp(<<15, 240>>), SameOp(2, 60), SkipOp(1), SkipOp(2)}

\* The op lists of at most n ops.
OpLists(n) == UNION {[1 .. m -> DeltaOps] : m \in 0 .. n}

\* The bytes of an op as Delta5 reads them: 0x80 | count and the data; 0,
\* the count and the fill byte; the number of rows to skip.
EncodeOp(op) ==
    IF op.k = "uniq" THEN <<128 + op.n>> \o op.data
    ELSE IF op.k = "same" THEN <<0, op.n, op.data[1]>>
    ELSE <<op.n>>

RECURSIVE EncodeOps(_)
EncodeOps(ops) ==
    IF ops = <<>> THEN <<>> ELSE EncodeOp(Head(ops)) \o EncodeOps(Tail(ops))

\* The bytes of a plane: for every column the op count and the ops.
RECURSIVE EncodePlane(_)
EncodePlane(cols) ==
    IF cols = <<>> THEN <<>>
    ELSE <<Len(Head(cols))>> \o EncodeOps(Head(cols)) \o EncodePlane(Tail(cols))

\* A pointer of the chunk's table, big-endian.
PtrBytes(n) ==
    <<n \div 16777216, (n \div 65536) % 256, (n \div 256) % 256, n % 256>>

\* The DLTA chunk for two planes: the two pointers (0 for a plane without
\* ops) and the bytes of the planes.
EncodeChunk(planes) ==
    LET first == EncodePlane(planes[1])
        second == EncodePlane(planes[2])
    IN PtrBytes(IF planes[1] = <<>> THEN 0 ELSE 8)
       \o PtrBytes(IF planes[2] = <<>> THEN 0 ELSE 8 + Len(first))
       \o first \o second

\* The byte at offset i of plane p before the delta.
OldByte(p, i) == (85 + 51 * i + 7 * p) % 256

\* ApplyDelta is about to run Delta5 on a bitmap of two planes, 8 or 16
\* pixels wide (one or two byte columns in rows of two bytes) and up to
\* MaxRows high.  The first plane has any op lists of up to MaxOps ops for
\* its first column and of up to one op for its second; the second plane
\* has no ops, or one literal byte a column.
InitDelta ==
    /\ InitIdle
    /\ diff = NoDiff
    /\ clipArg = <<>>
    /\ mainClips = <<>>
    /\ InitNoStream
    /\ pc = "delta"
    /\ \E w \in {8, 16}, h \in 1 .. MaxRows, bits \in {0, ANIM_XOR},
          col1 \in OpLists(MaxOps), col2 \in OpLists(1), p2 \in BOOLEAN :
          /\ w = 8 => col2 = <<>>
          /\ LET cols == IF w = 8 THEN <<col1>> ELSE <<col1, col2>>
                 planes == <<cols,
                             IF p2 THEN [x \in 1 .. Len(cols) |->
                                            <<UniqOp(<<255>>)>>]
                             ELSE <<>> >>
                 old == [p \in 1 .. 2 |->
                            [i \in 1 .. PlanarPitch(w) * h |-> OldByte(p, i)]]
             IN delta = [bitmap |-> [Width |-> w, Height |-> h,
                                     Pitch |-> PlanarPitch(w), NumPlanes |-> 2,
                                     Planes |-> old],
                         bits |-> bits, chunk |-> EncodeChunk(planes),
                         ops |-> planes, old |-> old]

\* ApplyDelta with head->operation 5: Delta5(bitmap, head, len, delta).
ApplyDelta5 ==
    /\ pc = "delta"
    /\ delta' = [delta EXCEPT !.bitmap = Delta5(@, delta.bits, delta.chunk)]
    /\ pc' = "applied"
    /\ UNCHANGED <<clipArg, mainClips, iff, writerVars, loaderVars, lzwVars>>

NextDelta == ApplyDelta5

SpecDelta == InitDelta /\ [][NextDelta]_vars

\* ------------------------------------------------------------ the long deltas alone

\* n as an element of size bytes, big-endian (n below 128).
NumBytes(n, size) == [i \in 1 .. size |-> IF i = size THEN n ELSE 0]

\* The bytes of an op in the op list: the count with the top bit set, the
\* zero and the count, the number of rows to skip.
LongOpBytes(op, size) ==
    IF op.k = "uniq" THEN [NumBytes(op.n, size) EXCEPT ![1] = @ + 128]
    ELSE IF op.k = "same" THEN NumBytes(0, size) \o NumBytes(op.n, size)
    ELSE NumBytes(op.n, size)

\* The bytes of the op's data elements, each cut to size bytes.
RECURSIVE LongDataBytes(_, _)
LongDataBytes(data, size) ==
    IF data = <<>> THEN <<>>
    ELSE SubSeq(Head(data), 1, size) \o LongDataBytes(Tail(data), size)

\* The bytes of a column's ops: as Delta8Long reads them (merged, the op
\* count an element), or the op bytes ("ops") and the data longs ("data")
\* that Delta7Long reads.
RECURSIVE EncodeLongOps(_, _, _)
EncodeLongOps(ops, size, part) ==
    IF ops = <<>> THEN <<>>
    ELSE LET op == Head(ops)
         IN (IF part = "merged"
             THEN LongOpBytes(op, size) \o LongDataBytes(op.data, size)
             ELSE IF part = "ops" THEN LongOpBytes(op, 1)
             ELSE LongDataBytes(op.data, size))
            \o EncodeLongOps(Tail(ops), size, part)

\* The bytes of the columns of the plane, cols their element sizes.
RECURSIVE EncodeLongPlane(_, _, _)
EncodeLongPlane(colops, cols, part) ==
    IF colops = <<>> THEN <<>>
    ELSE (IF part = "merged" THEN NumBytes(Len(Head(colops)), Head(cols))
          ELSE IF part = "ops" THEN <<Len(Head(colops))>>
          ELSE <<>>)
         \o EncodeLongOps(Head(colops), Head(cols), part)
         \o EncodeLongPlane(Tail(colops), Tail(cols), part)

\* The DLTA chunk of a bitmap of one plane: the table of 16 pointers, then
\* the lists of the plane.
EncodeLongChunk(operation, colops, cols) ==
    LET ops == EncodeLongPlane(colops, cols,
                               IF operation = 7 THEN "ops" ELSE "merged")
        data == IF operation = 7 THEN EncodeLongPlane(colops, cols, "data")
                ELSE <<>>
    IN [i \in 1 .. 64 |->
           IF i = 4 THEN 64
           ELSE IF i = 36 /\ operation = 7 THEN 64 + Len(ops)
           ELSE 0]
       \o ops \o data

\* The op lists of a column: none, a literal run of one element, one of
\* two, and a skipped row followed by a fill of two rows.
LongOpLists ==
    {<<>>,
     <<UniqOp(<< <<15, 240, 255, 1>> >>)>>,
     <<UniqOp(<< <<1, 2, 4, 8>>, <<16, 32, 64, 128>> >>)>>,
     <<SkipOp(1), SameOp(2, <<170, 85, 129, 60>>)>>}

\* ApplyDelta is about to run Delta7Long or Delta8Long on a bitmap of one
\* plane, 16, 24, 32, 40 or 48 pixels wide and up to MaxLongRows high, with a
\* chunk that has an op list for every column the function decodes.
InitLong ==
    /\ InitIdle
    /\ diff = NoDiff
    /\ clipArg = <<>>
    /\ mainClips = <<>>
    /\ InitNoStream
    /\ pc = "long"
    /\ \E w \in {16, 24, 32, 40, 48}, h \in 1 .. MaxLongRows,
          bits \in {0, ANIM_XOR}, operation \in {7, 8},
          col1 \in LongOpLists, col2 \in LongOpLists :
          LET cols == IF operation = 7 THEN Delta7Columns(w)
                      ELSE Delta8Columns(w)
              colops == SubSeq(<<col1, col2>>, 1, Len(cols))
              old == << [i \in 1 .. PlanarPitch(w) * h |-> OldByte(1, i)] >>
          IN /\ Len(cols) < 2 => col2 = <<>>
             /\ Len(cols) < 1 => col1 = <<>>
             /\ delta = [bitmap |-> [Width |-> w, Height |-> h,
                                     Pitch |-> PlanarPitch(w), NumPlanes |-> 1,
                                     Planes |-> old],
                         bits |-> bits,
                         chunk |-> EncodeLongChunk(operation, colops, cols),
                         ops |-> colops, old |-> old, wrote |-> {},
                         operation |-> operation, cols |-> cols]

\* ApplyDelta with head->operation 7 or 8 and ANIM_LONG_DATA set.
ApplyDeltaLong ==
    /\ pc = "long"
    /\ delta' = [delta EXCEPT
                    !.bitmap = DeltaLong(@, delta.operation, delta.bits,
                                         delta.chunk),
                    !.wrote = DeltaLongPlanes(delta.bitmap, delta.operation,
                                              delta.bits, delta.chunk)[1].wrote]
    /\ pc' = "longdone"
    /\ UNCHANGED <<clipArg, mainClips, iff, writerVars, loaderVars, lzwVars>>

NextLong == ApplyDeltaLong

SpecLong == InitLong /\ [][NextLong]_vars

\* ------------------------------------------------------------ the animation file

\* LoadFile on a FORM ANIM, with the writer as main constructs it without
\* -c, -r and -s, on a disk that never fails.
InitLoad ==
    /\ Init
    /\ clipArg = <<>>
    /\ ~ForcedFrameRate
    /\ ~SoloMode

\* LoadANIM's NextChunk finds another FORM ILBM and calls LoadILBM on it.
BeginForm ==
    /\ pc = "run"
    /\ ~iff.open
    /\ iff.form < MaxForms
    /\ iff' = BeginILBM(iff)
    /\ UNCHANGED <<pc, clipArg, mainClips, delta, writerVars, loaderVars,
                   lzwVars>>

\* One turn of LoadILBM's chunk loop. The files read have no BODY after a
\* DLTA of the same FORM. A failed assertion ends the program.
NextChunk ==
    /\ pc = "run"
    /\ iff.open
    /\ iff.read < MaxChunks
    /\ \E c \in Chunks, ndebug \in BOOLEAN :
          /\ c.id = "BODY" => iff.planes # "history"
          /\ iff' = ReadChunk(iff, c, history, ndebug)
          /\ pc' = IF iff'.error = "assert" THEN "aborted" ELSE pc
    /\ UNCHANGED <<clipArg, mainClips, delta, writerVars, loaderVars, lzwVars>>

\* The FORM ILBM has no more chunks: LoadILBM returns planes, and for a
\* bitmap LoadANIM calls AddFrame and updates its history (the next call of
\* LoadILBM on the same FORM finds no chunk and returns NULL). The bitmap
\* has the Rate the constructor gave it and the ANHD's reltime, here 0.
EndForm ==
    /\ pc = "run"
    /\ iff.open
    /\ IF iff.planes = "null"
       THEN /\ iff' = [iff EXCEPT !.open = FALSE]
            /\ UNCHANGED <<pc, writerVars, loaderVars>>
       ELSE \E ub \in FlushOutcomes :
               LET bitmap == [img |-> "A", Delay |-> 0, Rate |-> 60,
                              Interleave |-> iff.Interleave]
               IN /\ planar' = bitmap
                  /\ history' = NextHistory(history, bitmap)
                  /\ decoded' = decoded + 1
                  /\ Commit(AddFrame(St, bitmap, ub))
                  /\ iff' = [iff EXCEPT !.open = FALSE,
                                        !.frames = @ \cup {iff.form}]
    /\ UNCHANGED <<clipArg, mainClips, delta, lzwVars>>

\* LoadANIM's NextChunk finds no further FORM: main ends as in EndOfMain.
EndOfAnim ==
    /\ ~iff.open
    /\ EndOfMain

NextLoad == BeginForm \/ NextChunk \/ EndForm \/ EndOfAnim

SpecLoad == InitLoad /\ [][NextLoad]_vars

\* ------------------------------------------------------------ the history

\* LoadFile on a FORM ANIM as in InitLoad; here every frame is an image of
\* its own, named by its number.
InitHistory == InitLoad

\* One turn of LoadANIM's loop: the first FORM ILBM has a BMHD and a BODY,
\* every later one an ANHD with interleave v and a DLTA, which LoadILBM
\* applies to history[v & 1]. planar notes the frame that the delta was
\* applied to (base) and how many deltas with interleave 1 there have been.
LoadDelta ==
    /\ pc = "run"
    /\ decoded < MaxHistFrames
    /\ \E v \in {0, 1, 2}, ub \in FlushOutcomes :
          /\ decoded = 0 => v = 0
          /\ LET bitmap == [img |-> decoded + 1, Delay |-> 0, Rate |-> 60,
                            Interleave |-> IF decoded = 0 THEN 0
                                           ELSE 2 - (v % 2)]
             IN /\ planar' = [img |-> bitmap.img, Delay |-> 0, Rate |-> 60,
                              Interleave |-> bitmap.Interleave,
                              base |-> IF decoded = 0 THEN 0
                                       ELSE history[(v % 2) + 1],
                              ones |-> IF decoded = 0 THEN 0
                                       ELSE planar.ones
                                            + (IF v = 1 THEN 1 ELSE 0)]
                /\ history' = NextHistory(history, bitmap)
                /\ decoded' = decoded + 1
                /\ Commit(AddFrame(St, bitmap, ub))
    /\ UNCHANGED <<mainVars, lzwVars>>

NextHistoryStep == LoadDelta \/ EndOfMain

SpecHistory == InitHistory /\ [][NextHistoryStep]_vars

\* ------------------------------------------------------------ the compressor

\* GIF restricts codes to 12 bits.
MaxCodeBits == 12

\* Pixel i (from 0) of the large image: each run of 256 pixels steps
\* through the palette by another odd number, so that no two neighbouring
\* pixels repeat an earlier pair and every pixel but the first adds a
\* dictionary entry.
Pattern(i) == ((2 * (i \div 256) + 1) * (i % 256)) % 256

\* Row y (from 0) of the large image.
PatternRow(y) == [x \in 1 .. PatternWidth |-> Pattern(y * PatternWidth + x - 1)]

\* The inner loop of LZWCompress over the pixels lo .. hi of one row, in
\* order: the first half of them, then the rest. (The test on BitPos, true
\* of every stream, has the first half computed before the rest is begun.)
RECURSIVE AddRow(_, _, _, _)
AddRow(cs, row, lo, hi) ==
    IF lo > hi THEN cs
    ELSE IF lo = hi THEN AddByte(cs, row[lo])
    ELSE LET half == AddRow(cs, row, lo, (lo + hi) \div 2)
         IN IF half.BitPos >= 0
            THEN AddRow(half, row, (lo + hi) \div 2 + 1, hi)
            ELSE half

\* The string of a code in the decompressor's table: table[k] is the
\* <<prefix code, appended byte>> of code eoi + k.
RECURSIVE StringOf(_, _, _)
StringOf(table, code, eoi) ==
    IF code < eoi - 1 THEN <<code>>
    ELSE Append(StringOf(table, table[code - eoi][1], eoi), table[code - eoi][2])

\* The decompressor taking bytes from the sub-blocks until it holds a whole
\* code; the data ends at a zero-length block (or the end of the vector).
RECURSIVE ReaderFill(_, _)
ReaderFill(r, codes) ==
    IF r.nbits >= r.width THEN r
    ELSE IF r.pos > Len(codes) THEN [r EXCEPT !.state = "eod"]
    ELSE IF r.blockLeft = 0
    THEN IF codes[r.pos] = 0 THEN [r EXCEPT !.state = "eod"]
         ELSE ReaderFill([r EXCEPT !.blockLeft = codes[r.pos], !.pos = @ + 1], codes)
    ELSE ReaderFill([r EXCEPT !.acc = @ + codes[r.pos] * Shl1(r.nbits),
                              !.nbits = @ + 8,
                              !.pos = @ + 1,
                              !.blockLeft = @ - 1], codes)

\* The decompressor acting on one code (GIF89a, appendix F).
ReaderApply(r, code) ==
    LET clear == Shl1(r.min)
        eoi == clear + 1
        next == eoi + 1 + Len(r.table)
    IN IF code = clear
       THEN [r EXCEPT !.width = r.min + 1, !.table = <<>>, !.prev = -1,
                      !.clears = @ + 1]
       ELSE IF code = eoi THEN [r EXCEPT !.state = "eoi"]
       ELSE IF r.prev = -1
       THEN IF code < clear
            THEN [r EXCEPT !.out = Append(@, code), !.prev = code]
            ELSE [r EXCEPT !.state = "error"]
       ELSE IF code > next \/ next >= CODE_LIMIT
       THEN [r EXCEPT !.state = "error"]
       ELSE LET from == IF code < next THEN code ELSE r.prev
                first == StringOf(r.table, from, eoi)[1]
                table1 == Append(r.table, <<r.prev, first>>)
            IN [r EXCEPT !.table = table1,
                         !.out = @ \o StringOf(table1, code, eoi),
                         !.prev = code,
                         !.width = IF next + 1 = Shl1(@) /\ @ < MaxCodeBits
                                   THEN @ + 1 ELSE @]

\* The decompressor reading and acting on the next code.
ReaderStep(r, codes) ==
    LET f == ReaderFill(r, codes)
    IN IF f.state # "run" THEN f
       ELSE ReaderApply([f EXCEPT !.acc = @ \div Shl1(f.width),
                                  !.nbits = @ - f.width],
                        f.acc % Shl1(f.width))

\* The decompressor taking up to n codes: the first half of them, then the
\* rest. (The test on pos, true of every reader, has the first half
\* computed before the rest is begun.)
RECURSIVE ReaderRun(_, _, _)
ReaderRun(r, codes, n) ==
    IF n = 0 \/ r.state # "run" THEN r
    ELSE IF n = 1 THEN ReaderStep(r, codes)
    ELSE LET half == ReaderRun(r, codes, n \div 2)
         IN IF half.pos > 0
            THEN ReaderRun(half, codes, n - n \div 2)
            ELSE half

\* The decompressor before the first code: codes[1] is the minimum code
\* size, the sub-blocks follow.
ReaderInit(codes) ==
    [state |-> "run", min |-> codes[1], pos |-> 2, blockLeft |-> 0,
     acc |-> 0, nbits |-> 0, width |-> codes[1] + 1, table |-> <<>>,
     prev |-> -1, out |-> <<>>, clears |-> 0]

\* LZWCompress lines 627-630: a mincodesize below 2 becomes 2.
FloorCodeSize(mincodesize) == IF mincodesize < 2 THEN 2 ELSE mincodesize

\* LZWCompress up to its loop: the minimum code size asked for (requested:
\* 1 or 2 for a small image, 8 for the large one) is raised to 2 if it is
\* less, goes into the vector, and the CodeStream is constructed over it.
\* Either a small image of any content, or the large one.
InitLZW ==
    /\ InitIdle
    /\ diff = NoDiff
    /\ clipArg = <<>>
    /\ mainClips = <<>>
    /\ pc = "compress"
    /\ \E m \in {"small", "large"}, req \in {1, 2, 8} :
          /\ req = 8 <=> m = "large"
          /\ pixels = [mode |-> m, rows |-> 0, bytes |-> <<>>,
                       requested |-> req]
          /\ stream = CodeStreamCtor(FloorCodeSize(req),
                                     <<FloorCodeSize(req)>>)
    /\ reader = NoReader
    /\ delta = NoDelta

\* One turn of LZWCompress's loop over y: codes.AddByte(in[x]) for every
\* x of the row.
CompressRow ==
    /\ pc = "compress"
    /\ pixels.rows < (IF pixels.mode = "small" THEN MaxLzwLen ELSE PatternRows)
    /\ \E row \in (IF pixels.mode = "small"
                    THEN {<<p>> : p \in SmallPalette
                                      \cap (0 .. Shl1(pixels.requested) - 1)}
                    ELSE {PatternRow(pixels.rows)}) :
          /\ stream' = AddRow(stream, row, 1, Len(row))
          /\ pixels' = [pixels EXCEPT !.rows = @ + 1, !.bytes = @ \o row]
    /\ UNCHANGED <<pc, reader, writerVars, loaderVars, mainVars>>

\* The end of LZWCompress: the image is through and codes is destroyed.
\* The decompressor is set on the vector.
FinishStream ==
    /\ pc = "compress"
    /\ pixels.rows >= 1
    /\ pixels.mode = "large" => pixels.rows = PatternRows
    /\ stream' = DestroyStream(stream)
    /\ reader' = ReaderInit(stream'.Codes)
    /\ pc' = "decompress"
    /\ UNCHANGED <<pixels, writerVars, loaderVars, mainVars>>

\* The decompressor takes the next codes.
ReadCodes ==
    /\ pc = "decompress"
    /\ reader.state = "run"
    /\ \E n \in {1, ReadBatch} :
          /\ pixels.mode = "large" => n = ReadBatch
          /\ reader' = ReaderRun(reader, stream.Codes, n)
    /\ UNCHANGED <<pc, stream, pixels, writerVars, loaderVars, mainVars>>

NextLZW == CompressRow \/ FinishStream \/ ReadCodes

SpecLZW == InitLZW /\ [][NextLZW]_vars

\* ------------------------------------------------------------ the pictures

\* The loop of Palette::Extend: the power of two the palette fits in.
RECURSIVE ExtendBits(_, _)
ExtendBits(n, p) == IF Shl1(p) < n /\ p < 8 THEN ExtendBits(n, p + 1) ELSE p

\* Palette::Extend starting its gray ramp at black behind the palette.
ExtendRampFromBlack(pal) ==
    IF pal = <<>> THEN <<>>
    ELSE LET p == ExtendBits(Len(pal), 1)
         IN [i \in 1 .. Shl1(p) |->
                IF i <= Len(pal) THEN pal[i]
                ELSE ((i - 1 - Len(pal)) * 255) \div Shl1(p)]

\* Palette::Extend.  A palette is the sequence of its color registers, each
\* a gray level here (red = green = blue); the extras are grayscale.
Extend(pal) ==
    IF pal = <<>> THEN <<>>
    ELSE LET p == ExtendBits(Len(pal), 1)
         IN [i \in 1 .. Shl1(p) |->
                IF i <= Len(pal) THEN pal[i]
                ELSE ((i - 1) * 255) \div Shl1(p)]

\* The pixels of a chunky bitmap inside the descriptor imd, row after row
\* from Pixels + Left + Top * Pitch, Pitch bytes from row to row.
RectPixels(bitmap, imd) ==
    [k \in 1 .. imd.Width * imd.Height |->
        bitmap.Pixels[imd.Left
                      + (imd.Top + (k - 1) \div imd.Width) * bitmap.Pitch
                      + ((k - 1) % imd.Width) + 1]]

\* The least member of a non-empty set of numbers.
Least(S) == CHOOSE m \in S : \A n \in S : m <= n

\* GIFWriter::SelectTransparentColor(cbprev, cbnow, imd), palsize being
\* GlobalPal.size().  used[i] is held as the set of the bits set in the
\* byte; the first byte that is not 255 is scanned for its lowest clear bit.
SelectTransparentColor(cbprev, cbnow, imd, palsize) ==
    LET prev == RectPixels(cbprev, imd)
        now == RectPixels(cbnow, imd)
        changed == {now[k] : k \in {n \in DOMAIN now : prev[n] # now[n]}}
        used == [i \in 0 .. 31 |-> {j \in 0 .. 7 : 8 * i + j \in changed}]
        open == {i \in 0 .. 31 : used[i] # 0 .. 7}
    IN IF open = {} THEN -1
       ELSE LET i == Least(open)
                j == Least((0 .. 7) \ used[i])
            IN IF 8 * i + j < palsize THEN 8 * i + j ELSE -1

\* LZWCompress's loops: the bytes it hands to AddByte one after another,
\* the pixels of the rectangle, or with a trans that is not negative the
\* changed pixels and (uint8_t)trans for the others.
HandedBytes(imd, cbprev, chunky, trans) ==
    LET in == RectPixels(chunky, imd)
    IN IF trans < 0 THEN in
       ELSE LET prev == RectPixels(cbprev, imd)
            IN [k \in DOMAIN in |->
                   IF prev[k] # in[k] THEN in[k] ELSE trans % 256]

\* LZWCompress(vec, imd, cbprev, chunky, mincodesize, trans) with an empty
\* vec: the vector it leaves.  The rows of the rectangle go to AddByte one
\* after another.
LZWCompress(imd, cbprev, chunky, mincodesize, trans) ==
    LET m == FloorCodeSize(mincodesize)
        bytes == HandedBytes(imd, cbprev, chunky, trans)
    IN DestroyStream(AddRow(CodeStreamCtor(m, <<m>>), bytes, 1, Len(bytes))).Codes

\* The pictures of the writer before the first frame: the fields of the
\* differ, GlobalPal, WriteQueue.Total(), the LocalPalette of the frame
\* queued last (OldLocal), and of the frame made last its palette, its
\* local palette, its GCE flags and transparent color, and its LZW data.
\* Observers: frames counts AddFrame's calls, firstPal is the palette of
\* the first, called whether MakeFrame called SelectTransparentColor and
\* selected what that returned, trans and temptrans are MakeFrame's locals, first
\* and try2 the vectors of the two LZWCompress calls, old the PrevFrame
\* they were made against.
NoPaint ==
    [Width |-> 0, Height |-> 0, TransparentColor |-> -1,
     PrevFrame |-> NoBitmap, chunky |-> NoBitmap, IMD |-> NewIMD(NoBitmap),
     disposal |-> 0, GlobalPal |-> <<>>, Total |-> 0, OldLocal |-> <<>>,
     palette |-> <<>>, LocalPalette |-> <<>>, palchanged |-> FALSE,
     Flags |-> 0, GCETrans |-> 0, LZW |-> <<>>,
     frames |-> 0, firstPal |-> <<>>, selected |-> -1, called |-> FALSE,
     trans |-> -1,
     temptrans |-> FALSE, first |-> <<>>, try2 |-> <<>>, old |-> NoBitmap,
     mode |-> "small"]

\* MakeFrame always undoing the transparent color when the second vector
\* is kept.
MakeFrameKeepAlwaysUndo(d, first, try2) ==
    IF d.trans >= 0 /\ Len(try2) <= Len(first)
    THEN [d EXCEPT !.LZW = try2, !.Flags = 0, !.GCETrans = 0,
                   !.first = first, !.try2 = try2]
    ELSE [d EXCEPT !.LZW = first, !.first = first, !.try2 = try2]

\* MakeFrame lines 408-423: the second vector replaces the first when it
\* is not longer, and a transparent color chosen for this frame is undone.
MakeFrameKeep(d, first, try2) ==
    IF d.trans >= 0 /\ Len(try2) <= Len(first)
    THEN [d EXCEPT !.LZW = try2,
                   !.Flags = IF d.temptrans THEN 0 ELSE @,
                   !.GCETrans = IF d.temptrans THEN 0 ELSE @,
                   !.first = first, !.try2 = try2]
    ELSE [d EXCEPT !.LZW = first, !.first = first, !.try2 = try2]

\* MakeFrame lines 406-412: the image is compressed, and again without the
\* substitution if there was one.
MakeFrameCompress(d, mincodesize) ==
    MakeFrameKeep(d,
        LZWCompress(d.IMD, d.PrevFrame, d.chunky, mincodesize, d.trans),
        IF d.trans >= 0
        THEN LZWCompress(d.IMD, d.PrevFrame, d.chunky, mincodesize, -1)
        ELSE <<>>)

\* MakeFrame lines 386-405: the transparent color.  newframe.GCE.Flags is 0
\* or 1 here, so (Flags & 0x1C0) == 0x80 is false.
MakeFrameTrans(d) ==
    IF d.Total = 0 \/ IsEmpty(d.PrevFrame) \/ d.palchanged
    THEN [d EXCEPT !.trans = -1, !.temptrans = FALSE, !.called = FALSE]
    ELSE IF d.Flags % 2 = 1
    THEN [d EXCEPT !.trans = d.GCETrans, !.temptrans = FALSE,
                   !.called = FALSE]
    ELSE LET t == SelectTransparentColor(d.PrevFrame, d.chunky, d.IMD,
                                         Len(d.GlobalPal))
         IN IF t >= 0
            THEN [d EXCEPT !.trans = t, !.temptrans = TRUE, !.selected = t,
                           !.called = TRUE, !.Flags = 1, !.GCETrans = t]
            ELSE [d EXCEPT !.trans = t, !.temptrans = FALSE, !.selected = t,
                           !.called = TRUE]

\* MakeFrame never giving a frame a local palette.
MakeFrameAreaGlobalOnly(d, palette) ==
    LET d1 == [d EXCEPT !.LocalPalette = <<>>, !.palchanged = FALSE,
                        !.palette = palette]
    IN IF ~IsEmpty(d.PrevFrame) THEN MinimumArea(d1) ELSE d1

\* MakeFrame taking the changed rectangle whatever the palettes are.
MakeFrameAreaAlwaysDiff(d, palette) ==
    LET local == IF palette # d.GlobalPal THEN Extend(palette) ELSE <<>>
        palchanged == d.Total > 0 /\ local # d.OldLocal
        d1 == [d EXCEPT !.LocalPalette = local, !.palchanged = palchanged,
                        !.palette = palette]
    IN IF ~IsEmpty(d.PrevFrame) THEN MinimumArea(d1) ELSE d1

\* MakeFrame lines 370-382: the local palette and the rectangle.
MakeFrameArea(d, palette) ==
    LET local == IF palette # d.GlobalPal THEN Extend(palette) ELSE <<>>
        palchanged == d.Total > 0 /\ local # d.OldLocal
        d1 == [d EXCEPT !.LocalPalette = local, !.palchanged = palchanged,
                        !.palette = palette]
    IN IF ~IsEmpty(d.PrevFrame) /\ ~palchanged THEN MinimumArea(d1) ELSE d1

\* The end of MakeFrame: the frame is queued and chunky moves to PrevFrame.
MakeFrameQueued(d) ==
    [d EXCEPT !.Total = @ + 1, !.OldLocal = d.LocalPalette,
              !.old = d.PrevFrame, !.PrevFrame = d.chunky]

\* The pictures' side of GIFWriter::MakeFrame(bitmap, chunky, palette,
\* mincodesize) in normal mode, every frame being queued: oldframe is the
\* frame queued last, and there is one when Total() > 0.
MakeFramePicture(d, bitmap, chunky, palette, mincodesize) ==
    LET d1 == [d EXCEPT !.chunky = chunky, !.IMD = NewIMD(chunky),
                        !.Width = bitmap.Width, !.Height = bitmap.Height,
                        !.TransparentColor = bitmap.TransparentColor,
                        !.Flags = IF bitmap.TransparentColor >= 0
                                  THEN 1 ELSE 0,
                        !.GCETrans = IF bitmap.TransparentColor >= 0
                                     THEN bitmap.TransparentColor ELSE 0]
        d2 == IF d.Total > 0 THEN SelectDisposal(d1) ELSE d1
    IN MakeFrameQueued(
           MakeFrameCompress(MakeFrameTrans(MakeFrameArea(d2, palette)),
                             mincodesize))

\* The pictures' side of GIFWriter::AddFrame(bitmap, chunky), chunky
\* holding one byte a pixel and no clip range excluding the frame.
AddFramePicture(d, bitmap) ==
    LET palette == bitmap.Palette
        chunky == ChunkyCtor(bitmap.img, bitmap.Width, bitmap.Height, 1)
        d1 == IF d.frames = 0
              THEN [d EXCEPT !.GlobalPal = Extend(palette),
                             !.firstPal = palette]
              ELSE d
    IN MakeFramePicture([d1 EXCEPT !.frames = @ + 1], bitmap, chunky,
                        palette, bitmap.NumPlanes)

\* The palettes of the small bitmaps: two, three and four colors.
PaintPalettes == {<<0, 255>>, <<0, 255, 85>>, <<0, 85, 170, 255>>}

\* The small images, six pixels each.
PaintImages ==
    {<<0, 1, 2, 0, 1, 2>>, <<1, 0, 2, 0, 1, 1>>, <<0, 0, 0, 0, 0, 0>>,
     <<0, 1, 0, 1, 0, 1>>, <<1, 0, 1, 0, 1, 0>>, <<0, 1, 2, 0, 1, 1>>}

\* Pixel i (from 1) of the large images: every color once in the frame
\* numbered n, and none where the frame before had it.
LargeImage(n) == [i \in 1 .. 256 |-> (i - 1 + n) % 256]

\* The bitmaps LoadILBM can hand over as the next frame: in the small run
\* any small image of the run's size, its palette covering 1 << NumPlanes
\* colors when extended, with color 0 transparent or none; in the large
\* run the next large image with all 256 colors in the palette.
PaintBitmaps(d) ==
    IF d.mode = "large"
    THEN {[Width |-> 16, Height |-> 16, NumPlanes |-> 8,
           TransparentColor |-> -1, Palette |-> [i \in 1 .. 256 |-> i - 1],
           img |-> LargeImage(d.frames)]}
    ELSE {b \in [Width : {d.Width}, Height : {d.Height}, NumPlanes : {1, 2},
                 TransparentColor : {-1, 0}, Palette : PaintPalettes,
                 img : PaintImages] :
             /\ b.NumPlanes = (IF Len(b.Palette) > 2 THEN 2 ELSE 1)
             /\ \A i \in DOMAIN b.img : b.img[i] < Shl1(b.NumPlanes)}

\* The writer before the first frame of a run of small pictures, six by
\* one or three by two, or of large ones.
InitPaint ==
    /\ InitIdle
    /\ clipArg = <<>>
    /\ mainClips = <<>>
    /\ InitNoStream
    /\ delta = NoDelta
    /\ pc = "paint"
    /\ \E shape \in {<<6, 1, "small">>, <<3, 2, "small">>, <<16, 16, "large">>} :
          diff = [NoPaint EXCEPT !.Width = shape[1], !.Height = shape[2],
                                 !.mode = shape[3]]

\* LoadANIM hands the next frame to AddFrame.
PaintFrame ==
    /\ pc = "paint"
    /\ diff.frames < (IF diff.mode = "large" THEN 2 ELSE MaxPaintFrames)
    /\ \E bitmap \in PaintBitmaps(diff) :
          Commit([St EXCEPT !.diff = AddFramePicture(diff, bitmap)])
    /\ UNCHANGED <<loaderVars, mainVars, lzwVars>>

\* The writer is destroyed.
EndPaint ==
    /\ pc = "paint"
    /\ diff.frames >= 1
    /\ Commit([St EXCEPT !.pc = "closed"])
    /\ UNCHANGED <<loaderVars, mainVars, lzwVars>>

NextPaint == PaintFrame \/ EndPaint

SpecPaint == InitPaint /\ [][NextPaint]_vars

\* ------------------------------------------------------------ the palette alone

\* Bits() of the palette Extend returns: the p it was constructed with, and
\* the 0 of a default-constructed palette when the palette is empty.
ExtendNumBits(pal) == IF pal = <<>> THEN 0 ELSE ExtendBits(Len(pal), 1)

\* The palettes handed to Extend: of every length up to MaxPalLen and of
\* the lengths about 128 and 256 (a CMAP chunk can hold more than 256
\* colors), the gray levels going up by 1, 3 or 7 from 5.
PalLens == (0 .. MaxPalLen) \cup {127, 128, 129, 255, 256, 257, 300}
TestPalette(n, k) == [i \in 1 .. n |-> (5 + k * (i - 1)) % 256]

\* Nothing has been extended.
InitExtend ==
    /\ InitIdle
    /\ clipArg = <<>>
    /\ mainClips = <<>>
    /\ InitNoStream
    /\ delta = NoDelta
    /\ pc = "extend"
    /\ \E n \in PalLens, k \in {1, 3, 7} :
          diff = [pal |-> TestPalette(n, k), out |-> <<>>, bits |-> 0,
                  again |-> <<>>, againbits |-> 0]

\* palette.Extend()
DoExtend ==
    /\ pc = "extend"
    /\ Commit([St EXCEPT !.diff = [@ EXCEPT !.out = Extend(diff.pal),
                                            !.bits = ExtendNumBits(diff.pal)],
                         !.pc = "extended"])
    /\ UNCHANGED <<loaderVars, mainVars, lzwVars>>

\* The palette returned is extended once more.
DoExtendAgain ==
    /\ pc = "extended"
    /\ Commit([St EXCEPT !.diff = [@ EXCEPT !.again = Extend(diff.out),
                                            !.againbits = ExtendNumBits(diff.out)],
                         !.pc = "extended twice"])
    /\ UNCHANGED <<loaderVars, mainVars, lzwVars>>

NextExtend == DoExtend \/ DoExtendAgain

SpecExtend == InitExtend /\ [][NextExtend]_vars

\* ------------------------------------------------------------ the replay

\* The color of a canvas pixel nothing is drawn on.
Background == -1

\* MakeFrame leaving the frame queued last as it is.
OldFrameUntouched(frame, disposal) == frame

\* MakeFrame line 363 on the frame queued last:
\* oldframe->GCE.Flags |= SelectDisposal(...) << 2.
OldFrameDisposal(frame, disposal) ==
    [frame EXCEPT !.Flags = BitOr(@, disposal * 4)]

\* The frame MakeFrame hands to Enqueue: its control flags and transparent
\* color, its descriptor, its local palette and its data.
QueuedFrame(d) ==
    [Flags |-> d.Flags, GCETrans |-> d.GCETrans, IMD |-> d.IMD,
     LocalPalette |-> d.LocalPalette, LZW |-> d.LZW]

\* A decoder before the next frame: the disposal method in bits 2 to 4 of
\* the flags of the frame drawn last is applied to that frame's rectangle,
\* 2 restoring the background there and 0 and 1 leaving the canvas.
Dispose(canvas, width, frame) ==
    IF (frame.Flags \div 4) % 8 = 2
    THEN [i \in DOMAIN canvas |->
             LET x == (i - 1) % width
                 y == (i - 1) \div width
             IN IF /\ x >= frame.IMD.Left
                   /\ x < frame.IMD.Left + frame.IMD.Width
                   /\ y >= frame.IMD.Top
                   /\ y < frame.IMD.Top + frame.IMD.Height
                THEN Background ELSE canvas[i]]
    ELSE canvas

\* A decoder drawing a frame: the pixels its data decodes to go into its
\* rectangle row after row, but for those equal to its transparent color
\* when bit 0 of its flags is set.
Draw(canvas, width, frame) ==
    LET r == ReaderRun(ReaderInit(frame.LZW), frame.LZW, 8 * Len(frame.LZW))
    IN [i \in DOMAIN canvas |->
           LET x == ((i - 1) % width) - frame.IMD.Left
               y == ((i - 1) \div width) - frame.IMD.Top
               k == y * frame.IMD.Width + x + 1
           IN IF /\ x >= 0 /\ x < frame.IMD.Width
                 /\ y >= 0 /\ y < frame.IMD.Height
                 /\ k <= Len(r.out)
                 /\ ~(frame.Flags % 2 = 1 /\ r.out[k] = frame.GCETrans)
              THEN r.out[k] ELSE canvas[i]]

\* The frames made, the newest with the disposal method MakeFrame has
\* chosen for it in making the frame that left d1.
MadeDisposed(d, d1) ==
    IF d.Total > 0
    THEN [d.Made EXCEPT ![Len(d.Made)] = OldFrameDisposal(@, d1.disposal)]
    ELSE d.Made

\* The decoder disposes of the frame drawn last and draws the new one.
Redrawn(d, made, new) ==
    Draw(IF made = <<>> THEN d.canvas
         ELSE Dispose(d.canvas, d.Width, made[Len(made)]),
         d.Width, new)

\* The writer d1 after MakeFrame with the frames made and the canvas.
FrameDrawn(d, d1, made, new) ==
    [d1 EXCEPT !.Made = Append(made, new), !.canvas = Redrawn(d, made, new)]

FrameReplayed(d, d1) ==
    FrameDrawn(d, d1, MadeDisposed(d, d1), QueuedFrame(d1))

\* GIFWriter::AddFrame(bitmap, chunky) with the frames it has made so far
\* (Made, the newest being WriteQueue.MostRecent()) and a decoder's canvas
\* after the newest is drawn.
AddFrameReplay(d, bitmap) == FrameReplayed(d, AddFramePicture(d, bitmap))

\* The palettes of a replayed run: four colors, or three.
ReplayPalettes == {<<0, 85, 170, 255>>, <<0, 255, 85>>}

\* The bitmaps of a replayed run: the palette and the transparent color
\* are those of the run's first BMHD and CMAP.
ReplayBitmaps(d) ==
    {[Width |-> d.Width, Height |-> d.Height, NumPlanes |-> 2,
      TransparentColor |-> d.runTrans, Palette |-> d.runPal, img |-> img] :
        img \in PaintImages}

\* The writer before the first frame of a replayed run.
InitReplay ==
    /\ InitIdle
    /\ clipArg = <<>>
    /\ mainClips = <<>>
    /\ InitNoStream
    /\ delta = NoDelta
    /\ pc = "replay"
    /\ \E shape \in {<<6, 1>>, <<3, 2>>}, trans \in {-1, 0},
          pal \in ReplayPalettes :
          diff = [NoPaint EXCEPT !.Width = shape[1], !.Height = shape[2]]
                 @@ [Made |-> <<>>,
                     canvas |-> [i \in 1 .. shape[1] * shape[2] |-> Background],
                     runTrans |-> trans, runPal |-> pal]

\* LoadANIM hands the next frame to AddFrame.
ReplayFrame ==
    /\ pc = "replay"
    /\ diff.frames < MaxPaintFrames
    /\ \E bitmap \in ReplayBitmaps(diff) :
          Commit([St EXCEPT !.diff = AddFrameReplay(diff, bitmap)])
    /\ UNCHANGED <<loaderVars, mainVars, lzwVars>>

\* The writer is destroyed.
EndReplay ==
    /\ pc = "replay"
    /\ diff.frames >= 1
    /\ Commit([St EXCEPT !.pc = "replayed"])
    /\ UNCHANGED <<loaderVars, mainVars, lzwVars>>

NextReplay == ReplayFrame \/ EndReplay

SpecReplay == InitReplay /\ [][NextReplay]_vars

\* ------------------------------------------------------------ the bytes compressed

\* The palettes of a run watching the bytes: the CMAP chunk gives two,
\* four or eight colors whatever the BMHD's plane count is.
BytePalettes == {<<0, 255>>, <<0, 85, 170, 255>>,
                 <<0, 36, 72, 109, 145, 182, 218, 255>>}

\* The images of such a run, six pixels each of up to four colors.
ByteImages ==
    PaintImages \cup {<<0, 1, 2, 3, 0, 1>>, <<3, 0, 2, 1, 2, 1>>}

\* The bitmaps of the run: the plane count, the palette and the
\* transparent color are those of the run's BMHD and CMAP, and every pixel
\* has a value the planes can hold.
ByteBitmaps(d) ==
    {[Width |-> d.Width, Height |-> d.Height, NumPlanes |-> d.runPlanes,
      TransparentColor |-> d.runTrans, Palette |-> d.runPal, img |-> img] :
        img \in {i \in ByteImages :
                    \A k \in DOMAIN i : i[k] < Shl1(d.runPlanes)}}

\* The builds of the program: assert is checked, or is compiled away.
Builds == {"assert", "NDEBUG"}

\* The bytes the LZWCompress calls of the MakeFrame that left d1 handed to
\* AddByte: those of the first call and, if it had a transparent color,
\* those of the second.
BytesOfFrame(d1) ==
    IF d1.trans >= 0
    THEN HandedBytes(d1.IMD, d1.old, d1.chunky, d1.trans)
         \o HandedBytes(d1.IMD, d1.old, d1.chunky, -1)
    ELSE HandedBytes(d1.IMD, d1.old, d1.chunky, d1.trans)

\* AddByte's assert(p < (1 << MinCodeSize)) on the bytes handed, m being
\* MinCodeSize: d is the writer before the frame, d1 after it.
BytesAsserted(d, d1, m, build, handed) ==
    IF build = "assert" /\ \E k \in DOMAIN handed : handed[k] >= Shl1(m)
    THEN [d EXCEPT !.handed =
                      SubSeq(handed, 1,
                             Least({k \in DOMAIN handed :
                                       handed[k] >= Shl1(m)})),
                   !.MinCodeSize = m, !.frames = @ + 1, !.aborted = TRUE]
    ELSE [d1 EXCEPT !.handed = handed, !.MinCodeSize = m]

BytesWatched(d, d1, m, build) ==
    BytesAsserted(d, d1, m, build, BytesOfFrame(d1))

\* GIFWriter::AddFrame(bitmap, chunky) watched: handed are the bytes the
\* one or two LZWCompress calls of MakeFrame hand to AddByte, MinCodeSize
\* is that of their CodeStream.  In a build with assertions the first byte
\* that is not below 1 << MinCodeSize ends the program.
AddFrameBytes(d, bitmap, build) ==
    BytesWatched(d, AddFramePicture(d, bitmap),
                 FloorCodeSize(bitmap.NumPlanes), build)

\* The run goes on with the writer d, or has ended on the assertion.
CommitBytes(d) ==
    Commit([St EXCEPT !.diff = d,
                      !.pc = IF d.aborted THEN "aborted" ELSE @])

\* The writer before the first frame of the run.
InitBytes ==
    /\ InitIdle
    /\ clipArg = <<>>
    /\ mainClips = <<>>
    /\ InitNoStream
    /\ delta = NoDelta
    /\ pc = "bytes"
    /\ \E planes \in {1, 2}, trans \in {-1, 0}, pal \in BytePalettes :
          diff = [NoPaint EXCEPT !.Width = 6, !.Height = 1]
                 @@ [handed |-> <<>>, MinCodeSize |-> 0, aborted |-> FALSE,
                     runPlanes |-> planes, runTrans |-> trans,
                     runPal |-> pal]

\* LoadANIM hands the next frame to AddFrame.
BytesFrame ==
    /\ pc = "bytes"
    /\ diff.frames < MaxByteFrames
    /\ \E bitmap \in ByteBitmaps(diff), build \in Builds :
          CommitBytes(AddFrameBytes(diff, bitmap, build))
    /\ UNCHANGED <<loaderVars, mainVars, lzwVars>>

\* The writer is destroyed.
EndBytes ==
    /\ pc = "bytes"
    /\ diff.frames >= 1
    /\ Commit([St EXCEPT !.pc = "closed"])
    /\ UNCHANGED <<loaderVars, mainVars, lzwVars>>

NextBytes == BytesFrame \/ EndBytes

SpecBytes == InitBytes /\ [][NextBytes]_vars

\* ------------------------------------------------------------ the clip merge again

\* The ranges parseclip can deliver, a start of 0 among them: "0" gives
\* (0, 0), "0-3" gives (0, 3), and an end of 0 or none is UINT_MAX.
AnyClipRanges ==
    {<<0, 0>>, <<0, 3>>, <<0, UINT_MAX>>, <<1, 1>>, <<1, 5>>, <<2, 2>>,
     <<2, 6>>, <<4, 9>>, <<7, 7>>, <<11, UINT_MAX>>}

\* main at the start of its option loop.
InitResort ==
    /\ InitIdle
    /\ diff = NoDiff
    /\ clipArg = <<>>
    /\ mainClips = <<>>
    /\ pc = "any args"
    /\ InitNoStream
    /\ delta = NoDelta

\* parseclip, for one range of a -c argument: clips.push_back(start, end).
ParseAnyClip ==
    /\ pc = "any args"
    /\ Len(mainClips) < MaxClipLen
    /\ \E r \in AnyClipRanges :
          /\ mainClips' = Append(mainClips, r)
          /\ clipArg' = Append(clipArg, r)
    /\ UNCHANGED <<pc, delta, iff, writerVars, loaderVars, lzwVars>>

\* main after the option loop: sortclips(clips).
SortAnyClips ==
    /\ pc = "any args"
    /\ mainClips' = sortclips(mainClips)
    /\ pc' = "any sorted"
    /\ UNCHANGED <<clipArg, delta, iff, writerVars, loaderVars, lzwVars>>

\* sortclips on the list it has returned.
SortClipsAgain ==
    /\ pc = "any sorted"
    /\ mainClips' = sortclips(mainClips)
    /\ pc' = "sorted twice"
    /\ UNCHANGED <<clipArg, delta, iff, writerVars, loaderVars, lzwVars>>

NextResort == ParseAnyClip \/ SortAnyClips \/ SortClipsAgain

SpecResort == InitResort /\ [][NextResort]_vars

\* ------------------------------------------------------------ observations

Range(seq) == {seq[i] : i \in 1 .. Len(seq)}
IsFrame(item) == item.t = "frame"
IsHeader(item) == item.t = "header"
\* The frame items of a file, in the order written.
FrameItems(file) == SelectSeq(file.items, IsFrame)
\* The source frame numbers written to file f, in the order written.
WrittenIds(f) == [i \in 1 .. Len(FrameItems(files[f])) |-> FrameItems(files[f])[i].id]
\* The source frame numbers written to any file.
WrittenSet == UNION {Range(WrittenIds(f)) : f \in 1 .. Len(files)}
\* The source frame numbers now queued.
QueuedSet == {Queue[i].frame.id : i \in 1 .. Len(Queue)}
\* <<1, ..., n>>
UpTo(n) == [i \in 1 .. n |-> i]
\* The written frame numbers of file f that are at most n.
AtMost(n, ids) == SelectSeq(ids, LAMBDA k : k <= n)

\* ------------------------------------------------------------ C1

\* C1: a stream of N >= 2 frames enqueued into a queue whose drop count is
\* 2 and then flushed: if the last 2 enqueued source frames equal the first
\* 2, exactly the first N - 2 frames are written and the last 2 never are;
\* otherwise the drop count is reset to 0 and all N frames are written.
C1_DropTwoTrailing ==
    flushLog # <<>> =>
        LET N == flushLog[1].total
            same == \A i \in 1 .. 2 : enqLog[N - 2 + i].src = enqLog[i].src
            ids == AtMost(N, WrittenIds(1))
        IN (flushLog[1].drop = 2 /\ N >= 2) =>
               IF same THEN ids = UpTo(N - 2) /\ flushLog[1].after = 2
               ELSE ids = UpTo(N) /\ flushLog[1].after = 0

\* A stream longer than the queue whose last two frames repeat its first
\* two, flushed with two frames dropped.
C1_Witness ==
    /\ flushLog # <<>>
    /\ flushLog[1].drop = 2
    /\ flushLog[1].total > MAX_QUEUE_SIZE
    /\ flushLog[1].after = 2
    /\ enqLog[1].src # enqLog[2].src
    /\ WrittenIds(1) = UpTo(flushLog[1].total - 2)

\* ------------------------------------------------------------ C2

\* C2: every frame is written at most once and in the order enqueued; a
\* frame that left the queue without being found there by a Flush has been
\* written, before any frame enqueued after it; only frames a Flush found
\* queued can be missing from the output.
C2_OnceInOrder ==
    LET w == WrittenIds(1)
        AtFlush == UNION {Range(flushLog[i].queued) : i \in 1 .. Len(flushLog)}
    IN /\ \A i, j \in 1 .. Len(w) : i < j => w[i] < w[j]
       /\ \A k \in 1 .. TotalQueued : enqLog[k].id = k
       /\ \A k \in 1 .. TotalQueued :
              k \in Range(w) \/ k \in QueuedSet \/ k \in AtFlush
       /\ \A k \in Range(w), q \in QueuedSet : k < q
       /\ Range(w) \cap QueuedSet = {}

\* The queue is full after an eviction: the evicted frame is in the output.
C2_Witness ==
    /\ Len(Queue) = MAX_QUEUE_SIZE
    /\ TotalQueued = MAX_QUEUE_SIZE + 1
    /\ WrittenIds(1) = <<1>>
    /\ flushLog = <<>>

\* ------------------------------------------------------------ C3

\* C3: for every sequence of palette indices handed to AddByte and then
\* finished, a GIF decompressor run over the emitted vector comes to the
\* end of the data without an error, having put out exactly the sequence
\* handed in, and never more than it on the way; this for images that
\* never fill the dictionary and for one that reaches the code limit and
\* is reset in mid-stream.
C3_RoundTrip ==
    pc = "decompress" =>
        /\ reader.state \in {"run", "eoi", "eod"}
        /\ Len(reader.out) <= Len(pixels.bytes)
        /\ reader.out = SubSeq(pixels.bytes, 1, Len(reader.out))
        /\ reader.state # "run" => reader.out = pixels.bytes

\* The large image is through: the compressor reset its dictionary in
\* mid-stream, and the decompressor, having seen both clear codes, has put
\* out every pixel.
C3_Witness ==
    /\ pc = "decompress"
    /\ pixels.mode = "large"
    /\ stream.resets = 2
    /\ reader.clears = 2
    /\ reader.state = "eoi"
    /\ Len(reader.out) = PatternWidth * PatternRows
    /\ reader.out = pixels.bytes

\* ------------------------------------------------------------ C4

\* C4: in normal mode, when a frame with non-zero source delay d arrives
\* while a previous frame is queued, that previous frame's GIF delay
\* becomes floor((T + d) * 100 / rate) - G, T and G being TotalTicks and
\* GIFTime before the call.
C4_ShiftedDelay ==
    [][(/\ ~SoloMode
        /\ pc = "run"
        /\ Queue # <<>>
        /\ TotalQueued' = TotalQueued + 1
        /\ planar'.Delay # 0)
       => Queue'[Len(Queue') - 1].frame.DelayTime =
              ((TotalTicks + planar'.Delay) * 100) \div FrameRate' - GIFTime]_vars

\* ------------------------------------------------------------ C5

IsClosed(file) == file.items # <<>> /\ file.items[Len(file.items)].t = "trailer"

\* C5: whenever an output file is finished, whatever the drop count, the
\* last frame written to it carries the first source frame's delay (when
\* it had one), rescaled like every other delay.
C5_LastFrameFirstDelay ==
    [][\A f \in 1 .. Len(files') :
         (/\ IsClosed(files'[f])
          /\ f > Len(files) \/ ~IsClosed(files[f])
          /\ FrameItems(files'[f]) # <<>>
          /\ FirstDelay' # 0)
         => LET fr == FrameItems(files'[f])
            IN fr[Len(fr)].delay =
                   (((TotalTicks + FirstDelay') * 100) \div FrameRate'
                    - GIFTime) % U16]_vars

\* ------------------------------------------------------------ C6

\* C6: with one frame rate R throughout, GIFTime = floor(TotalTicks * 100
\* / R) after every delay assignment, and the sum of the delays assigned
\* to frames is less than a centisecond below the exact elapsed time.
C6_NoAccumulatedError ==
    \A R \in delayLog :
        delayLog = {R} =>
            /\ GIFTime = (TotalTicks * 100) \div R
            /\ assigned * R <= TotalTicks * 100
            /\ TotalTicks * 100 < (assigned + 1) * R

\* ------------------------------------------------------------ C7

\* The 1-based frame numbers up to n that lie within a clip range.
InClips(n, clipList) ==
    {k \in 1 .. n : \E j \in 1 .. Len(clipList) :
                       clipList[j][1] <= k /\ k <= clipList[j][2]}

\* C7: over a sorted, merged list of 1-based clip ranges, the frames queued
\* for output are exactly the source frames whose 1-based number lies in
\* some range; every source frame, in a range or not, has been decoded into
\* the history buffers; nothing but queued frames reaches a file.
C7_ClipGate ==
    /\ {enqLog[i].id : i \in 1 .. Len(enqLog)} = InClips(FrameCount, CtorClips(mainClips))
    /\ Len(enqLog) = Cardinality(InClips(FrameCount, CtorClips(mainClips)))
    /\ decoded = FrameCount
    /\ decoded > 0 => history # <<>>
    /\ WrittenSet \subseteq InClips(FrameCount, CtorClips(mainClips))

\* Three frames decoded under the ranges 1-1 and 3-3: the second one was
\* decoded and not queued.
C7_Witness ==
    /\ Len(mainClips) = 2
    /\ decoded = MaxFrames
    /\ {enqLog[i].id : i \in 1 .. Len(enqLog)} = {1, 3}
    /\ history # <<>>

\* ------------------------------------------------------------ C8

Headers ==
    UNION {{files[f].items[i] : i \in {j \in 1 .. Len(files[f].items) :
                                          IsHeader(files[f].items[j])}} :
           f \in 1 .. Len(files)}

\* C10: in normal mode no file is opened and no header written while at
\* most one frame has been queued and the writer is running; the header is
\* written once, when exactly one frame had been queued: with the looping
\* extension if a second frame arrived, without it if the writer was
\* finalized with a single frame queued.
C10_DeferredHeader ==
    ~SoloMode =>
        /\ (pc = "run" /\ TotalQueued <= 1) => (files = <<>> /\ File = 0)
        /\ Len(files) <= 1
        /\ \A f \in 1 .. Len(files) :
               Len(SelectSeq(files[f].items, IsHeader)) = 1
        /\ \A h \in Headers : h.q = 1 /\ (h.loop <=> TotalQueued >= 2)
        /\ TotalQueued >= 2 => Len(files) = 1
        /\ (pc # "run" /\ TotalQueued = 1) => Len(files) = 1
        /\ TotalQueued = 0 => files = <<>>

\* The second frame has just arrived: a looping header is in the file and
\* no frame has been written yet.
C10_Witness ==
    /\ ~SoloMode
    /\ pc = "run"
    /\ TotalQueued = 2
    /\ Len(files) = 1
    /\ files[1].items = <<HeaderItem(TRUE, 1)>>

\* A file holding exactly a header without the looping extension, one frame
\* and the trailer.
IsSoloFile(file) ==
    /\ Len(file.items) = 3
    /\ IsHeader(file.items[1]) /\ ~file.items[1].loop
    /\ IsFrame(file.items[2])
    /\ file.items[3].t = "trailer"

\* C11: in solo mode, once the writer is finalized after k >= 1 emitted
\* frames (k = 1 included), there are exactly k files, each one a header
\* without the looping extension, one frame and the trailer; and at most one
\* file is open at any time.
C11_SoloFiles ==
    SoloMode =>
        /\ Cardinality({f \in 1 .. Len(files) : ~IsClosed(files[f])}) <= 1
        /\ (pc = "closed" /\ enqLog # <<>>) =>
               /\ Len(files) = Len(enqLog)
               /\ \A f \in 1 .. Len(files) : IsSoloFile(files[f])

\* C12: a file that got its trailer is a header, then frames only, then
\* that one trailer, and it is closed; in every file, finished or not, the
\* first item is the header, there is no second header, and nothing follows
\* a trailer.
C12_FileOrder ==
    \A f \in 1 .. Len(files) :
        LET it == files[f].items
            n == Len(it)
        IN /\ n >= 1 => IsHeader(it[1])
           /\ \A i \in 2 .. n : ~IsHeader(it[i])
           /\ \A i \in 1 .. n - 1 : IsFrame(it[i]) \/ IsHeader(it[i])
           /\ IsClosed(files[f]) =>
                  /\ \A i \in 2 .. n - 1 : IsFrame(it[i])
                  /\ File # f /\ QFile # f
                  /\ \E i \in 1 .. Len(io.closed) : io.closed[i] = f

\* A finished animation: the header, every frame of the longest source (the
\* first ones written when the full queue evicted them), and the trailer.
C12_Witness ==
    /\ pc = "closed"
    /\ ~SoloMode
    /\ Len(files) = 1
    /\ IsClosed(files[1])
    /\ Len(FrameItems(files[1])) = MaxIOFrames
    /\ Len(files[1].items) = MaxIOFrames + 2

\* The pixel in column x, row y of a chunky image.
PixelAt(bitmap, x, y) == bitmap.Pixels[y * bitmap.Pitch + x + 1]

\* The columns and the rows holding a pixel that differs between the
\* retained frame and the new one.
ChangedColumns ==
    {x \in 0 .. diff.chunky.Width - 1 :
        \E y \in 0 .. diff.chunky.Height - 1 :
            PixelAt(diff.PrevFrame, x, y) # PixelAt(diff.chunky, x, y)}
ChangedRows ==
    {y \in 0 .. diff.chunky.Height - 1 :
        \E x \in 0 .. diff.chunky.Width - 1 :
            PixelAt(diff.PrevFrame, x, y) # PixelAt(diff.chunky, x, y)}
Greatest(S) == CHOOSE n \in S : \A k \in S : n >= k

\* C13: MinimumArea of two identical images is the rectangle of width 1 and
\* height 1 at left 0, top 0.
C13_SameImage ==
    (pc = "area" /\ diff.PrevFrame.Pixels = diff.chunky.Pixels) =>
        diff.IMD = [Left |-> 0, Top |-> 0, Width |-> 1, Height |-> 1]

\* MinimumArea has compared a 3 x 3 image having both colors with itself.
C13_Witness ==
    /\ pc = "area"
    /\ diff.PrevFrame = diff.chunky
    /\ diff.chunky.Width = 3 /\ diff.chunky.Height = 3
    /\ diff.chunky.Pixels[1] = 1 /\ diff.chunky.Pixels[9] = 0
    /\ diff.IMD.Width = 1

\* C14: MinimumArea of two images that differ is the bounding rectangle of
\* the differing pixels: from the first to the last row and from the
\* leftmost to the rightmost column that hold one.
C14_BoundingBox ==
    (pc = "area" /\ diff.PrevFrame.Pixels # diff.chunky.Pixels) =>
        diff.IMD = [Left |-> Least(ChangedColumns),
                    Top |-> Least(ChangedRows),
                    Width |-> Greatest(ChangedColumns)
                              - Least(ChangedColumns) + 1,
                    Height |-> Greatest(ChangedRows) - Least(ChangedRows) + 1]

\* Only the pixel in the middle of a 3 x 3 image differs: the rectangle is
\* that pixel, touching no edge.
C14_Witness ==
    /\ pc = "area"
    /\ diff.chunky.Width = 3 /\ diff.chunky.Height = 3
    /\ ChangedColumns = {1} /\ ChangedRows = {1}
    /\ diff.IMD = [Left |-> 1, Top |-> 1, Width |-> 1, Height |-> 1]

\* Is some pixel of the descriptor's rectangle another color than trans in
\* the retained frame and trans in the new one?
TurnsTransparent(trans) ==
    \E y \in diff.IMD.Top .. diff.IMD.Top + diff.IMD.Height - 1,
       x \in diff.IMD.Left .. diff.IMD.Left + diff.IMD.Width - 1 :
        /\ PixelAt(diff.retained, x, y) # trans
        /\ PixelAt(diff.chunky, x, y) = trans

\* C15: SelectDisposal returns 1 and leaves PrevFrame alone when there is
\* no transparent color; with a transparent color and a retained frame it
\* returns 2 exactly when some pixel of the rectangle is not transparent in
\* the retained frame and transparent in the new one, whatever the width of
\* the chunky image, and exactly then it fills PrevFrame with that color.
C15_SelectDisposal ==
    pc = "disposal" =>
        /\ diff.TransparentColor < 0 =>
               diff.disposal = 1 /\ diff.PrevFrame = diff.retained
        /\ (diff.TransparentColor >= 0 /\ ~IsEmpty(diff.retained)) =>
               /\ diff.disposal = 2 <=> TurnsTransparent(diff.TransparentColor)
               /\ diff.disposal = 2 =>
                      diff.PrevFrame = SetSolidColor(diff.retained,
                                                     diff.TransparentColor)
               /\ diff.disposal = 1 => diff.PrevFrame = diff.retained

\* What the rows of a column get, from the top: the value of a literal
\* or fill run, or -1 for a row that is skipped.
RECURSIVE Cells(_)
Cells(ops) ==
    IF ops = <<>> THEN <<>>
    ELSE LET op == Head(ops)
         IN (IF op.k = "uniq" THEN op.data
             ELSE IF op.k = "same" THEN [i \in 1 .. op.n |-> op.data[1]]
             ELSE [i \in 1 .. op.n |-> -1])
            \o Cells(Tail(ops))

\* The byte a delta leaves in plane p, row r, byte column x.
DeltaResult(p, r, x) ==
    LET old == delta.old[p][r * delta.bitmap.Pitch + x + 1]
        cells == IF delta.ops[p] = <<>> \/ x >= Len(delta.ops[p]) THEN <<>>
                 ELSE Cells(delta.ops[p][x + 1])
    IN IF r + 1 <= Len(cells) /\ cells[r + 1] >= 0
       THEN IF delta.bits = ANIM_XOR THEN BitXor(old, cells[r + 1])
            ELSE cells[r + 1]
       ELSE old

\* C16: after Delta5 every row of a column that a literal run covers holds
\* the run's next byte and every row a fill run covers the fill byte,
\* exclusive-ored with the old byte in XOR mode; rows that are skipped or
\* not reached, the bytes beyond the last column, and planes whose pointer
\* is 0 are as before.
C16_Delta5 ==
    pc = "applied" =>
        \A p \in 1 .. delta.bitmap.NumPlanes,
           r \in 0 .. delta.bitmap.Height - 1,
           x \in 0 .. delta.bitmap.Pitch - 1 :
            delta.bitmap.Planes[p][r * delta.bitmap.Pitch + x + 1]
                = DeltaResult(p, r, x)

\* An XOR delta has skipped the first row of the first column and put a
\* literal run on the two rows below: new = old XOR data there, and the
\* second plane, without ops, is as it was.
C16_Witness ==
    /\ pc = "applied"
    /\ delta.bits = ANIM_XOR
    /\ delta.bitmap.Height = 3
    /\ delta.ops[1][1] = <<SkipOp(1), UniqOp(<<15, 240>>)>>
    /\ delta.ops[2] = <<>>
    /\ delta.bitmap.Planes[1][1] = delta.old[1][1]
    /\ delta.bitmap.Planes[1][delta.bitmap.Pitch + 1]
           = BitXor(delta.old[1][delta.bitmap.Pitch + 1], 15)
    /\ delta.bitmap.Planes[1][2 * delta.bitmap.Pitch + 1]
           = BitXor(delta.old[1][2 * delta.bitmap.Pitch + 1], 240)
    /\ delta.bitmap.Planes[1] # delta.old[1]
    /\ delta.bitmap.Planes[2] = delta.old[2]

\* C17: once a FORM ILBM of the animation has had a fatal record (an
\* unrecognized delta operation, a DLTA before any ANHD, a BODY with a
\* compression method above 1), no later FORM ILBM of the file gives the
\* writer a frame.
C17_NoFurtherFrames ==
    iff.fatal # 0 => \A f \in iff.frames : f <= iff.fatal

\* The diagnostics of the records C18 names.
FailedRecords ==
    {"operation", "compression", "noheader", "nohistory", "interleave"}

\* C18: when LoadILBM leaves a FORM in which a record failed, no frame is
\* passed for that record and the writer and LoadANIM's history are as they
\* were: a bitmap reaches AddFrame only when a later BMHD or DLTA of the
\* FORM supplied it.
C18_NoFrameForFailedRecord ==
    [][(iff.open /\ ~iff'.open /\ iff'.error \in FailedRecords) =>
          \/ UNCHANGED <<writerVars, loaderVars>>
          \/ iff.from > iff.failedAt]_vars

\* A DLTA with an unrecognized operation came after a frame had been
\* written, and its FORM gave no frame.
C18_Witness ==
    /\ pc = "run"
    /\ ~iff.open
    /\ iff.error = "operation"
    /\ iff.form = 2
    /\ iff.frames = {1}
    /\ FrameCount = 1

\* The plane counts LoadILBM takes.
AcceptedPlanes == (1 .. 8) \cup {24, 32}

\* C19: the bitmap a BMHD made has 1 to 8, 24 or 32 planes; a BMHD with any
\* other plane count ends LoadILBM where it is read, with no BODY or DLTA
\* decoded after it, and its FORM gives the writer no frame.
C19_PlaneCount ==
    /\ iff.planes = "new" => iff.nPlanes \in AcceptedPlanes
    /\ (iff.nPlanes # -1 /\ iff.nPlanes \notin AcceptedPlanes) =>
          /\ ~iff.open
          /\ iff.error = "planes"
          /\ iff.failedAt = iff.read
          /\ iff.applied = 0
          /\ iff.planes = "null"
          /\ iff.form \notin iff.frames

\* The second FORM ILBM has a BMHD without planes, after an ANHD.
C19_Witness ==
    /\ iff.form = 2
    /\ iff.frames = {1}
    /\ iff.nPlanes = 0
    /\ iff.read = 2
    /\ iff.error = "planes"

\* C21: in solo mode every frame written is in the file whose name carries
\* the number of that source frame (counted from 1).
C21_SoloFilenames ==
    SoloMode =>
        \A f \in 1 .. Len(files) :
            \A i \in 1 .. Len(files[f].items) :
                IsFrame(files[f].items[i]) =>
                    files[f].name = files[f].items[i].id

\* The source bitmaps of the first frames ever enqueued, MAX_QUEUE_SIZE at
\* most.
FirstEnqueued ==
    [i \in 1 .. (IF TotalQueued < MAX_QUEUE_SIZE THEN TotalQueued
                 ELSE MAX_QUEUE_SIZE) |-> enqLog[i].src]

\* C22: the queue never holds more than MAX_QUEUE_SIZE entries; an Enqueue
\* on a full queue writes the oldest entry to the file and removes it, and
\* the new entry is the last; FirstFrames is the source bitmaps of the
\* first min(N, MAX_QUEUE_SIZE) frames enqueued, and no step changes an
\* entry it has.
C22_BoundedQueue ==
    [][/\ Len(Queue') <= MAX_QUEUE_SIZE
       /\ FirstFrames' = FirstEnqueued'
       /\ SubSeq(FirstFrames', 1, Len(FirstFrames)) = FirstFrames
       /\ (TotalQueued' = TotalQueued + 1 /\ Len(Queue) = MAX_QUEUE_SIZE) =>
              /\ Tail(Queue) = SubSeq(Queue', 1, MAX_QUEUE_SIZE - 1)
              /\ Queue'[MAX_QUEUE_SIZE].frame.id = TotalQueued'
              /\ WrittenIds(QFile)' =
                     Append(WrittenIds(QFile), Head(Queue).frame.id)]_vars

\* The ninth frame has been enqueued: the first is in the file, the queue
\* holds the second to the ninth, and FirstFrames the bitmaps of the first
\* eight, which are not those of the queue.
C22_Witness ==
    /\ TotalQueued = MAX_QUEUE_SIZE + 1
    /\ Len(Queue) = MAX_QUEUE_SIZE
    /\ Queue[1].frame.id = 2
    /\ WrittenIds(1) = <<1>>
    /\ Len(FirstFrames) = MAX_QUEUE_SIZE
    /\ FirstFrames[1] = "A"
    /\ Queue[MAX_QUEUE_SIZE].src = "B"
    /\ FirstFrames[MAX_QUEUE_SIZE] = "A"

\* The elements that the ops of a column put on its rows, from the top
\* row down: <<>> on a skipped row.
RECURSIVE LongCells(_)
LongCells(ops) ==
    IF ops = <<>> THEN <<>>
    ELSE LET op == Head(ops)
         IN (IF op.k = "uniq" THEN op.data
             ELSE IF op.k = "same" THEN [i \in 1 .. op.n |-> op.data[1]]
             ELSE [i \in 1 .. op.n |-> <<>>])
            \o LongCells(Tail(ops))

\* C23: after a long delta every byte of every element that a literal or
\* fill run has written is the old byte exclusive-ored with the byte of the
\* value in XOR mode, and the byte of the value in replace mode.
C23_FullWidth ==
    pc = "longdone" =>
        \A x \in 1 .. Len(delta.cols), r \in 0 .. delta.bitmap.Height - 1 :
            LET cells == LongCells(delta.ops[x])
                at == r * delta.bitmap.Pitch + 4 * (x - 1)
            IN (r + 1 <= Len(cells) /\ cells[r + 1] # <<>>) =>
                   \A j \in 1 .. delta.cols[x] :
                       delta.bitmap.Planes[1][at + j] =
                           IF delta.bits = ANIM_XOR
                           THEN BitXor(delta.old[1][at + j], cells[r + 1][j])
                           ELSE cells[r + 1][j]

\* C24: a long delta decodes every 16-bit word column of the row: columns
\* of longs alone when the row has an even number of words, and columns of
\* longs followed by one last column of shorts when it has an odd number.
C24_Columns ==
    pc = "longdone" =>
        LET words == delta.bitmap.Pitch \div 2
        IN delta.cols = [x \in 1 .. (words + 1) \div 2 |->
                            IF 2 * x > words THEN 2 ELSE 4]

ChangedColors(prev, now, imd) ==
    {now.Pixels[y * now.Pitch + x + 1] :
        <<x, y>> \in {p \in (imd.Left .. imd.Left + imd.Width - 1)
                             \X (imd.Top .. imd.Top + imd.Height - 1) :
                         prev.Pixels[p[2] * prev.Pitch + p[1] + 1]
                             # now.Pixels[p[2] * now.Pitch + p[1] + 1]}}

\* The lowest color index of 0 .. 255 outside U, -1 if there is none.
LowestFree(U) == IF (0 .. 255) \ U = {} THEN -1 ELSE Least((0 .. 255) \ U)

\* The color table a frame is displayed with: its local one if it has one,
\* else the global one.
ActivePalette(d) ==
    IF d.LocalPalette # <<>> THEN d.LocalPalette ELSE d.GlobalPal

\* What SelectTransparentColor returned in the step is the lowest color no
\* changed pixel of the rectangle has, if that is below size, else -1.
SelectedWithin(size) ==
    LET c == LowestFree(ChangedColors(diff'.old, diff'.chunky, diff'.IMD))
    IN diff'.selected = (IF c >= 0 /\ c < size THEN c ELSE -1)

\* C26: SelectTransparentColor returns the lowest color index that no
\* changed pixel inside the rectangle has in the current image, if that
\* index is below the size of the frame's active palette, and -1 if it is
\* not or if the changed pixels use all 256 indices.
C26_LowestUnused ==
    [][(diff'.frames # diff.frames /\ diff'.called)
           => SelectedWithin(Len(ActivePalette(diff')))]_vars

\* The same with the size of the global color table, whatever table the
\* frame has.
SelectedAgainstGlobal ==
    [][(diff'.frames # diff.frames /\ diff'.called)
           => SelectedWithin(Len(diff'.GlobalPal))]_vars

\* The vector the compressor makes of the pixels of chunky inside imd, the
\* unchanged ones replaced by trans if that is a color: decompressed, it
\* is these pixels.
IsEncoding(vec, d, prev, trans) ==
    LET in == RectPixels(d.chunky, d.IMD)
        old == RectPixels(prev, d.IMD)
        r == ReaderRun(ReaderInit(vec), vec, 8 * Len(vec))
    IN /\ r.state = "eoi"
       /\ r.out = [k \in DOMAIN in |->
                      IF trans >= 0 /\ old[k] = in[k] THEN trans ELSE in[k]]

\* The frame of the step was compressed with a substitution: both vectors
\* were made, and the shorter is the frame's data, the one without
\* substitution if they are equally long.
ShorterKept ==
    /\ IsEncoding(diff'.first, diff', diff'.old, diff'.trans)
    /\ IsEncoding(diff'.try2, diff', diff'.old, -1)
    /\ diff'.LZW = (IF Len(diff'.try2) <= Len(diff'.first)
                    THEN diff'.try2 ELSE diff'.first)

\* C27 as stated: a frame compressed with transparent substitution is
\* also compressed without, the shorter vector is kept (the one without
\* substitution on a tie), and whenever that one is kept the frame's
\* transparency flag is clear.
C27_AsStated ==
    [][(diff'.frames # diff.frames /\ diff'.trans >= 0)
           => /\ ShorterKept
              /\ Len(diff'.try2) <= Len(diff'.first)
                     => diff'.Flags % 2 = 0]_vars

\* C27: a frame compressed with transparent substitution is also
\* compressed without, and the shorter vector is kept (the one without
\* substitution on a tie).  When that one is kept, the transparency flag is
\* cleared if the color was chosen by SelectTransparentColor for this
\* frame, and stays set with the source's color if the color is the source
\* bitmap's own; when the substituted one is kept the flag is set.
C27_ShorterKept ==
    [][(diff'.frames # diff.frames /\ diff'.trans >= 0)
           => /\ ShorterKept
              /\ IF Len(diff'.try2) <= Len(diff'.first) /\ diff'.temptrans
                 THEN diff'.Flags % 2 = 0
                 ELSE /\ diff'.Flags % 2 = 1
                      /\ diff'.GCETrans = diff'.trans
              /\ diff'.temptrans <=> diff'.TransparentColor < 0]_vars

\* A frame whose own transparent color 0 was substituted for unchanged
\* pixels, the vector without substitution being kept: the flag is set.
C27_Witness ==
    /\ diff.frames >= 2
    /\ diff.trans = 0
    /\ diff.TransparentColor = 0
    /\ diff.try2 # <<>>
    /\ diff.LZW = diff.try2
    /\ diff.Flags = 1

\* A frame for which SelectTransparentColor chose a color, the vector
\* without substitution being strictly the shorter: the flag is cleared.
PlainWins ==
    /\ diff.temptrans
    /\ Len(diff.try2) < Len(diff.first)
    /\ diff.Flags = 0

\* A frame for which the substituted vector is strictly the shorter.
SubstitutedWins ==
    /\ diff.trans >= 0
    /\ Len(diff.first) < Len(diff.try2)
    /\ diff.LZW = diff.first
    /\ diff.Flags = 1

\* table is pal extended to a power-of-two size: pal's colors in their
\* order, in the smallest table of 2, 4, ... 256 entries that holds them.
IsExtensionOf(table, pal) ==
    \E k \in 1 .. 8 :
        /\ Len(table) = 2 ^ k
        /\ Len(pal) <= 2 ^ k
        /\ k > 1 => Len(pal) > 2 ^ (k - 1)
        /\ \A i \in 1 .. Len(pal) : table[i] = pal[i]

\* C30: the global color table is the first frame's palette extended, from
\* the first frame on and for good; every later frame whose palette is not
\* the global one has its own palette extended as its local color table,
\* whatever the frames before it had, and a frame whose palette is the
\* global one has none.
C30_ColorTables ==
    [][diff'.frames # diff.frames
           => /\ diff'.GlobalPal = Extend(diff'.firstPal)
              /\ diff.frames >= 1 => diff'.GlobalPal = diff.GlobalPal
              /\ (diff.frames >= 1 /\ diff'.palette # diff'.GlobalPal)
                     => IsExtensionOf(diff'.LocalPalette, diff'.palette)
              /\ diff'.palette = diff'.GlobalPal
                     => diff'.LocalPalette = <<>>]_vars

\* Three frames: the second has a palette of its own and its local table,
\* the third the global palette again and no local table.
C30_Witness ==
    /\ diff.frames = 3
    /\ diff.GlobalPal = <<0, 85, 170, 255>>
    /\ diff.palette = diff.GlobalPal
    /\ diff.LocalPalette = <<>>
    /\ diff.palchanged

\* Byte n (from 0) of the packed codes of the stream cs: in the vector
\* behind the minimum code size, 255 to a sub-block behind its length
\* byte, then in the chunk being filled, then in the accumulator.
StreamByte(cs, n) ==
    LET done == ((Len(cs.Codes) - 1) \div 256) * 255
    IN IF n + n \div 255 + 3 <= Len(cs.Codes)
       THEN cs.Codes[n + n \div 255 + 3]
       ELSE IF n - done < Len(cs.Chunk) THEN cs.Chunk[n - done + 1]
       ELSE (cs.Accum \div (256 ^ (n - done - Len(cs.Chunk)))) % 256

\* The bits the open stream cs has taken so far.
StreamBits(cs) ==
    8 * (((Len(cs.Codes) - 1) \div 256) * 255 + Len(cs.Chunk)) + cs.BitPos

\* The number in the width bits from bit pos on of the packed codes of cs,
\* the first bit the lowest.
RECURSIVE BitsAt(_, _, _)
BitsAt(cs, pos, width) ==
    IF width = 0 THEN 0
    ELSE ((StreamByte(cs, pos \div 8) \div (2 ^ (pos % 8))) % 2)
         + 2 * BitsAt(cs, pos + 1, width - 1)

\* The dictionary a reset leaves: the codes of the single bytes.
IsFreshDict(cs) == DOMAIN cs.Dict = 0 .. 2 ^ cs.MinCodeSize - 1

\* AddByte(p) took the stream from c to c1 as C28 says.
AddByteOK(c, p, c1) ==
    LET at == StreamBits(c)
        w == c.CodeSize
    IN /\ c1.CodeSize \in c1.MinCodeSize + 1 .. 12
       /\ c1.NextCode < 4096
       /\ IF c1.written = c.written
          THEN /\ c1.CodeSize = w
               /\ c1.NextCode = c.NextCode
               /\ StreamBits(c1) = at
          ELSE /\ c.Match >= 0 /\ c.Match < 2 ^ w
               /\ BitsAt(c1, at, w) = c.Match
               /\ c1.Match = p
               /\ IF c.NextCode + 1 = 4096
                  THEN /\ c1.written = c.written + 2
                       /\ BitsAt(c1, at + w, w) = c.ClearCode
                       /\ c.ClearCode < 2 ^ w
                       /\ StreamBits(c1) = at + 2 * w
                       /\ c1.resets = c.resets + 1
                       /\ IsFreshDict(c1)
                       /\ c1.NextCode = c.EOICode + 1
                       /\ c1.CodeSize = c.MinCodeSize + 1
                  ELSE /\ c1.written = c.written + 1
                       /\ StreamBits(c1) = at + w
                       /\ c1.resets = c.resets
                       /\ c1.NextCode = c.NextCode + 1
                       /\ c1.CodeSize = (IF c.NextCode = 2 ^ w
                                         THEN w + 1 ELSE w)

\* AddByte for the bytes lo .. hi of row in order, a.cs being the stream
\* and a.ok telling whether every AddByte so far was as C28 says: the first
\* half of them, then the rest.
RECURSIVE AddRowChecked(_, _, _, _)
AddRowChecked(a, row, lo, hi) ==
    IF lo > hi THEN a
    ELSE IF lo = hi
    THEN LET c1 == AddByte(a.cs, row[lo])
         IN [cs |-> c1, ok |-> a.ok /\ AddByteOK(a.cs, row[lo], c1)]
    ELSE LET half == AddRowChecked(a, row, lo, (lo + hi) \div 2)
         IN IF half.cs.BitPos >= 0
            THEN AddRowChecked(half, row, (lo + hi) \div 2 + 1, hi)
            ELSE half

\* The codes the destructor emits: the match if there is one, then the
\* end-of-information code, at the width in effect and below 2^width.
LastCodesOK(c, c1) ==
    LET at == StreamBits(c)
        w == c.CodeSize
        n == IF c.Match >= 0 THEN 1 ELSE 0
    IN /\ c1.written = c.written + n + 1
       /\ c.Match >= 0 => (c.Match < 2 ^ w /\ BitsAt(c1, at, w) = c.Match)
       /\ c.EOICode < 2 ^ w
       /\ BitsAt(c1, at + n * w, w) = c.EOICode
       /\ c1.CodeSize = w

\* C28: while an image is compressed the code width is between
\* MinCodeSize + 1 and 12; after every AddByte the next code to assign is
\* below 4096; every code is emitted below 2^width at the width then in
\* effect; the width grows by one exactly when the code just assigned is
\* 2^width; and when the next code reaches 4096 the clear code is emitted,
\* the dictionary, the next code (end-of-information + 1) and the width
\* (MinCodeSize + 1) are reset and the match restarts with the byte in hand.
C28_CodeWidth ==
    [][/\ pixels'.rows > pixels.rows
          => LET row == SubSeq(pixels'.bytes, Len(pixels.bytes) + 1,
                               Len(pixels'.bytes))
                 a == AddRowChecked([cs |-> stream, ok |-> TRUE], row, 1,
                                    Len(row))
             IN a.ok /\ a.cs = stream'
       /\ (pc = "compress" /\ pc' = "decompress")
          => LastCodesOK(stream, stream')]_vars

\* The large image is through: the width has been 12, the dictionary was
\* reset in mid-stream and is growing again.
C28_Witness ==
    /\ pc = "compress"
    /\ pixels.mode = "large"
    /\ pixels.rows = PatternRows
    /\ stream.resets = 2
    /\ stream.NextCode > stream.EOICode + 1
    /\ stream.CodeSize \in stream.MinCodeSize + 1 .. 11

\* The vector from index pos on is a run of sub-blocks, a length byte of
\* 1 .. 255 and as many bytes each, all but the last of them 255 long, and
\* then the zero-length block as its last byte.
RECURSIVE IsBlocks(_, _)
IsBlocks(codes, pos) ==
    /\ pos <= Len(codes)
    /\ IF codes[pos] = 0 THEN pos = Len(codes)
       ELSE /\ codes[pos] \in 1 .. 255
            /\ pos + codes[pos] < Len(codes)
            /\ codes[pos] < 255 => codes[pos + codes[pos] + 1] = 0
            /\ IsBlocks(codes, pos + codes[pos] + 1)

\* C29: the vector of a compressed image is the minimum code size (the
\* size asked for, 2 if that is less), at least one sub-block of a length
\* byte of 1 .. 255 and as many data bytes, every sub-block but the last of
\* 255 bytes, and one zero byte; the chunk being filled never holds more
\* than 255 bytes, what was dumped before the end are whole chunks of 255,
\* and the first code, the clear code, is in the lowest bits of the first
\* data byte.
C29_SubBlocks ==
    pc \in {"compress", "decompress"} =>
        /\ Len(stream.Codes) >= 1
        /\ stream.Codes[1] = (IF pixels.requested < 2 THEN 2
                              ELSE pixels.requested)
        /\ Len(stream.Chunk) <= 255
        /\ \A i \in DOMAIN stream.Codes : stream.Codes[i] \in 0 .. 255
        /\ BitsAt(stream, 0, stream.Codes[1] + 1) = 2 ^ stream.Codes[1]
        /\ pc = "compress" =>
               /\ (Len(stream.Codes) - 1) % 256 = 0
               /\ \A k \in 0 .. (Len(stream.Codes) - 1) \div 256 - 1 :
                      stream.Codes[2 + 256 * k] = 255
        /\ pc = "decompress" =>
               /\ Len(stream.Codes) >= 4
               /\ stream.Codes[2] # 0
               /\ IsBlocks(stream.Codes, 2)

\* The large image compressed: its vector has more than two sub-blocks, and
\* the last is shorter than 255 bytes.
C29_Witness ==
    /\ pc = "decompress"
    /\ pixels.mode = "large"
    /\ stream.Codes[1] = 8
    /\ Len(stream.Codes) > 3 * 256
    /\ (Len(stream.Codes) - 2) % 256 \in 2 .. 255

\* A small image for which a minimum code size of 1 was asked: the vector
\* starts with 2.
Floored ==
    /\ pc = "decompress"
    /\ pixels.requested = 1
    /\ stream.Codes[1] = 2

\* The frame of the step covers the whole image and its data is the
\* image's pixels as they are, no color put in for unchanged ones.
FullFrame ==
    /\ diff'.IMD = NewIMD(diff'.chunky)
    /\ ~diff'.called
    /\ diff'.trans = -1
    /\ diff'.try2 = <<>>
    /\ IsEncoding(diff'.LZW, diff', diff'.old, -1)

\* The source of the step's frame has a transparent color, and a pixel
\* that had another color in the frame before has it now.
TakesTransparent ==
    /\ diff'.TransparentColor >= 0
    /\ \E i \in DOMAIN diff'.chunky.Pixels :
          /\ diff.PrevFrame.Pixels[i] # diff'.TransparentColor
          /\ diff'.chunky.Pixels[i] = diff'.TransparentColor

\* C31 as stated: for every frame after the first whose palette, extended,
\* is not the global color table, the frame before it is disposed to the
\* background, and the frame is the whole image, not held against the
\* frame before it and without transparent substitution.
C31_AsStated ==
    [][(diff'.frames # diff.frames /\ diff.frames >= 1
        /\ Extend(diff'.palette) # diff'.GlobalPal)
           => (diff'.disposal = 2 /\ FullFrame)]_vars

\* C31: a frame whose palette is not the global color table has a local
\* one.  A frame after the first is the whole image, not held against the
\* frame before it and without transparent substitution, whenever its
\* local color table is not that of the frame before it (a table where
\* that had none or another, or none where that had one); when the two are
\* the same, a local one included, and no pixel takes on a transparent
\* color of the source, the frame is the rectangle of the changed pixels.
\* The frame before is disposed to the background exactly when the source
\* has a transparent color that a pixel takes on, whatever the palettes
\* are.
C31_PaletteChange ==
    [][(diff'.frames # diff.frames /\ diff.frames >= 1)
           => /\ diff'.palette # diff'.GlobalPal => diff'.LocalPalette # <<>>
              /\ diff'.palchanged <=> diff'.LocalPalette # diff.LocalPalette
              /\ diff'.palchanged => FullFrame
              /\ (~diff'.palchanged /\ ~TakesTransparent)
                     => diff'.IMD = MinArea(diff.PrevFrame.Pixels,
                                            diff'.chunky.Pixels,
                                            NewIMD(diff'.chunky))
              /\ diff'.disposal = (IF TakesTransparent THEN 2 ELSE 1)]_vars

\* Three frames, the second and the third with the same palette of their
\* own: the third is the rectangle of its changed pixels, with a
\* transparent color put in, and the second stays on screen.
C31_Witness ==
    /\ diff.frames = 3
    /\ diff.LocalPalette # <<>>
    /\ diff.LocalPalette = diff.OldLocal
    /\ ~diff.palchanged
    /\ diff.IMD.Width < diff.chunky.Width
    /\ diff.called
    /\ diff.trans >= 0
    /\ diff.disposal = 1

\* The second frame has a palette of its own: it is the whole image, and
\* the first stays on screen.
PaletteChanged ==
    /\ diff.frames = 2
    /\ diff.palchanged
    /\ diff.LocalPalette # <<>>
    /\ diff.IMD = NewIMD(diff.chunky)
    /\ diff.disposal = 1
    /\ diff.old.Pixels # diff.chunky.Pixels

\* The sizes a color table can have.
TableSizes == {2 ^ k : k \in 1 .. 8}

\* C32: Extend of a palette of n >= 1 colors has the smallest of the sizes
\* 2, 4, ... 256 that is not below n, or 256 if n is more; its first
\* entries are the palette's (all that fit) in their order, the others the
\* gray levels (i * 255) / size for the index i from 0; its Bits() is the
\* logarithm of its size.  Extend of the empty palette is empty.  Extended
\* again, the palette and its Bits() are the same.
C32_Extend ==
    pc \in {"extended", "extended twice"} =>
        LET n == Len(diff.pal)
            size == Len(diff.out)
        IN /\ n = 0 => diff.out = <<>>
           /\ n > 0 =>
                 /\ size \in TableSizes
                 /\ size >= n \/ size = 256
                 /\ \A t \in TableSizes : t < size => t < n
                 /\ \A i \in 1 .. size :
                       diff.out[i] = (IF i <= n THEN diff.pal[i]
                                      ELSE ((i - 1) * 255) \div size)
                 /\ 2 ^ diff.bits = size
           /\ pc = "extended twice" =>
                 /\ diff.again = diff.out
                 /\ diff.againbits = diff.bits

\* A palette of three colors extended, and again: four colors, the fourth
\* the gray level 191, and 2 bits.
C32_Witness ==
    /\ pc = "extended twice"
    /\ diff.pal = <<5, 8, 11>>
    /\ diff.out = <<5, 8, 11, 191>>
    /\ diff.bits = 2
    /\ diff.again = diff.out

\* A palette of 300 colors extended: its first 256.
Truncated ==
    /\ pc = "extended"
    /\ Len(diff.pal) = 300
    /\ Len(diff.out) = 256
    /\ diff.bits = 8

\* AddFrame has made one more frame, not the first.
NextFrameMade == diff'.frames # diff.frames /\ diff.frames >= 1

\* C33 as stated: no field of a frame made before, delay aside, is other
\* after the next frame is made than it was when the frame was queued.
C33_AsStated ==
    [][NextFrameMade => SubSeq(diff'.Made, 1, Len(diff.Made)) = diff.Made]_vars

\* C33: when the next frame is made, the frame queued last gets its
\* disposal method, 1 or 2, in bits 2 to 4 of its control flags, which were
\* clear when it was queued; its transparency flag and index, rectangle,
\* local palette and data stay as they were queued, and so does all of
\* every frame queued before it.
C33_DisposalBackFilled ==
    [][NextFrameMade =>
          LET last == Len(diff.Made)
          IN /\ Len(diff'.Made) = last + 1
             /\ diff'.disposal \in {1, 2}
             /\ diff.Made[last].Flags \in {0, 1}
             /\ \A i \in 1 .. last :
                   diff'.Made[i] =
                       IF i = last
                       THEN [diff.Made[i] EXCEPT
                                !.Flags = @ + 4 * diff'.disposal]
                       ELSE diff.Made[i]]_vars

\* Three frames made, each with a local palette: the first keeps its
\* transparent color and is to be restored to the background, the second
\* is to be left in place.
C33_Witness ==
    /\ pc = "replay"
    /\ Len(diff.Made) = 3
    /\ diff.Made[1].Flags = 9
    /\ diff.Made[2].Flags \in {4, 5}
    /\ diff.Made[3].Flags \in {0, 1}
    /\ diff.Made[1].LocalPalette # <<>>
    /\ diff.Made[2].IMD.Width < diff.Width

\* What a decoder shows for a source image: its pixels, and the background
\* where they have the source's transparent color.
Shown(image, trans) ==
    [i \in DOMAIN image |-> IF image[i] = trans THEN Background ELSE image[i]]

\* C34: after each frame of a run of frames with one palette is drawn by
\* a decoder, the canvas equals the source frame at every pixel, the
\* pixels of the source's transparent color showing the background.
C34_Replay ==
    (pc \in {"replay", "replayed"} /\ diff.frames >= 1) =>
        diff.canvas = Shown(diff.chunky.Pixels, diff.TransparentColor)

\* C35: whenever the source can end and the writer be destroyed, so that
\* Flush is called on a queue that is not empty, the queue's drop count is
\* no more than the frames queued and no more than the first frames
\* retained.
C35_DropCount ==
    (pc = "run" /\ Queue # <<>>) =>
        /\ FinalFramesToDrop <= Len(Queue)
        /\ FinalFramesToDrop <= Len(FirstFrames)

\* C36: every byte handed to AddByte is below 1 << MinCodeSize of the
\* CodeStream it is handed to, and no run ends on AddByte's assertion.
C36_BytesInRange ==
    pc \in {"bytes", "aborted", "closed"} =>
        /\ ~diff.aborted
        /\ \A k \in DOMAIN diff.handed :
              diff.handed[k] < Shl1(diff.MinCodeSize)

\* C37: a frame with the palette of the first frame has no local palette,
\* and made after a frame with that palette too it is not taken for a
\* palette change, its rectangle being the one that changed.
C37_SamePalette ==
    [][(diff'.frames # diff.frames /\ diff'.palette = diff'.firstPal) =>
          /\ diff'.LocalPalette = <<>>
          /\ (diff.frames >= 1 /\ diff.palette = diff.firstPal) =>
                /\ ~diff'.palchanged
                /\ diff'.IMD = MinArea(diff'.old.Pixels, diff'.chunky.Pixels,
                                       NewIMD(diff'.chunky))]_vars

\* C38: a long delta stores to no byte of a row from Height on, which is
\* to none past the target plane: every offset stored to is in a row of
\* the plane.
C38_RowsOfThePlane ==
    pc = "longdone" =>
        \A o \in delta.wrote :
            /\ o \div delta.bitmap.Pitch < delta.bitmap.Height
            /\ o < Len(delta.old[1])

\* The frame numbers from 0 to MaxClipFrame, and the greatest there is,
\* that lie within a range of the list.
Covered(clipList) ==
    {k \in (0 .. MaxClipFrame) \cup {UINT_MAX} :
        \E j \in 1 .. Len(clipList) :
            clipList[j][1] <= k /\ k <= clipList[j][2]}

\* C39: sortclips returns a list covering the frame numbers the list it
\* was given covers, and given the list it has returned it returns that
\* list.
C39_SameFrames ==
    [][/\ (pc = "any args" /\ pc' = "any sorted") =>
              Covered(mainClips') = Covered(mainClips)
       /\ (pc = "any sorted" /\ pc' = "sorted twice") =>
              mainClips' = mainClips]_vars

\* Three ranges, one within another, merged to two and sorted again.
C39_Witness ==
    /\ pc = "sorted twice"
    /\ clipArg = << <<7, 7>>, <<2, 2>>, <<1, 5>> >>
    /\ mainClips = << <<1, 5>>, <<7, 7>> >>

\* Two ranges from 0, which are not merged, sorted again.
FromZero ==
    /\ pc = "sorted twice"
    /\ clipArg = << <<0, 3>>, <<0, 0>> >>
    /\ mainClips = << <<0, 0>>, <<0, 3>> >>

\* How many times fclose was called on the handle f.
CloseCount(f) == Cardinality({i \in 1 .. Len(io.closed) : io.closed[i] = f})

\* C20: after a write failure (a frame evicted by Enqueue, a frame or the
\* trailer in FinishFile, the header in WriteHeader) the handle is closed
\* exactly once and the writer and the queue hold no file; no write goes to
\* a closed handle, and no fclose is ever made on a null or closed handle.
C20_BadWrite ==
    /\ \A f \in io.failed : CloseCount(f) = 1 /\ File # f /\ QFile # f
    /\ \A f \in 1 .. Len(files) : CloseCount(f) <= 1
    /\ io.late = 0
    /\ io.nullOps = 0

====
